---- MODULE Spec2Model ----
(***************************************************************************)
(* ScribotV2: page-budget driven stepwise generation of a LaTeX work.      *)
(*                                                                         *)
(* Texts are modelled as sequences of tokens, one token per unit that the  *)
(* regular expressions of the source tell apart.  Page counts are exact    *)
(* rationals (the source uses binary floats; rounding is not modelled).    *)
(***************************************************************************)
EXTENDS Integers, Sequences, FiniteSets, TLC

VARIABLES
    tagContent,   \* validate_latex_tags: the content under validation
    tagResult,    \* validate_latex_tags: the returned (is_valid, error_msg)
    plan_text,    \* parse_work_plan: the plan text, a list of lines
    planResult,   \* parse_work_plan: the returned chapters (or "raised")
    full_content, \* fix_citations_in_work_content: the assembled document
    citeResult,   \* fix_citations_in_work_content: the returned document
    params,       \* generate_work_content_stepwise: plan_text and pages
    pc,           \* the await at which the generation stands
    plan_chapters,\* generate_work_content_stepwise: chapters, as parsed
    chapter_index,\* _generate_main_chapters: i, counted from 1
    attempt,      \* the attempt counter of the running validation loop
    last_content, \* generate_chapter_content: the last rejected response
    chapter_content,      \* _generate_main_chapters: the chapter in hand
    subsections,          \* generate_subsections_content: the titles
    subsection_index,     \* generate_subsections_content: _i, counted from 1
    subsections_content,  \* generate_subsections_content: the text so far
    main_content,         \* _generate_main_chapters: full_content so far
    total_pages_generated,\* _generate_main_chapters: the running total
    requested,    \* history: what was asked of the LLM, retries aside
    call,         \* history: the responses, the return value and the
                  \* admin warnings of the latest validation loop
    chapterLog,   \* history: the finished chapters, as appended
    genResult,    \* generate_work_content_stepwise: the returned document
    pages,        \* validate_work_plan: the target number of pages
    validation,   \* validate_work_plan: the returned (is_valid, items_count)
    allocArgs,    \* calculate_pages_per_chapter: total_pages and chapters
    allocResult,  \* calculate_pages_per_chapter: the returned dict
    dollarText,   \* smart_escape_dollars: the text it is first applied to
    dollarEscaped,\* smart_escape_dollars: what its successive applications
                  \* returned
    ampText,      \* the text the ampersand escaping is first applied to
    ampEscaped,   \* smart_escape_ampersands: what its successive
                  \* applications returned
    ampFixed,     \* fix_bibliography_ampersands: what its successive
                  \* applications returned
    sectionArgs,  \* fix_section_commands: content and
                  \* expected_subsection_title
    sectionResult,\* fix_section_commands: the returned content
    order_info,   \* generate_work_async: the order as the database has it
    workPc,       \* generate_work_async: the await at which it stands
    order_status, \* the status of the order in the database
    conversation_history, \* gpt.assistant: the messages kept for the order,
                  \* <<>> when the map has no entry for it
    work_requests,\* history: the requests made to the LLM, in order
    plans,        \* _generate_large_work: the plans received so far
    full_tex,     \* generate_work_async: the document, once it is built
    temp_dir,     \* generate_work_async: the temporary directory
    raised,       \* the exception that left the try block, if any
    error_details,\* LaTeXCompilationError: the error_details it carries
    sent,         \* history: what was sent to the administrator and to
                  \* the user, in order
    status_writes,\* history: the statuses written by update_order_status
    handler_raised, \* _handle_generation_error was left by an exception
    history_of,   \* gpt.assistant: conversation_history, the messages kept
                  \* under each order id, <<>> for an id without an entry
    askPc,        \* ask_assistant: where the call of each order stands
    askCall,      \* ask_assistant: the running or latest call of each order
    askCount,     \* history: the calls each order has finished
    api_calls,    \* history: the messages of the latest request each
                  \* order sent to the API
    actor,        \* history: the order whose step came last
    accessed,     \* history: the keys of conversation_history that step
                  \* looked up
    pdfArgs,      \* create_partial_pdf_with_qr: the pages of the full PDF,
                  \* payment_url and user_id
    pdfResult,    \* create_partial_pdf_with_qr: the returned success and
                  \* the pages of the PDF it wrote
    migration_files, \* the stems of the *.sql files of MIGRATIONS_DIR
    schema_version,  \* the versions in the rows of table schema_version
    migPc,        \* run_migrations: where the run stands
    current_version, \* run_migrations: the version read at its start
    migrations,   \* run_migrations: the list get_migration_files gave
    migration_index, \* run_migrations: the place of the loop in that list
    applied,      \* history: the files applied by the runs, one list a run
    version_log   \* history: the schema version found at each start

tagVars == <<tagContent, tagResult>>
planVars == <<plan_text, planResult>>
citeVars == <<full_content, citeResult>>
loopVars == <<chapter_index, attempt, last_content, chapter_content, subsections,
              subsection_index, subsections_content, main_content,
              total_pages_generated>>
historyVars == <<requested, call, chapterLog>>
genVars == <<params, pc, plan_chapters, loopVars, historyVars, genResult>>
validateVars == <<pages, validation>>
allocVars == <<allocArgs, allocResult>>
dollarVars == <<dollarText, dollarEscaped>>
ampVars == <<ampText, ampEscaped, ampFixed>>
sectionVars == <<sectionArgs, sectionResult>>
workOwnVars == <<order_info, workPc, order_status, conversation_history,
                 work_requests, plans, full_tex, temp_dir, raised, error_details, sent,
                 status_writes, handler_raised>>
askVars == <<history_of, askPc, askCall, askCount, api_calls, actor, accessed>>
pdfVars == <<pdfArgs, pdfResult>>
migVars == <<migration_files, schema_version, migPc, current_version, migrations,
             migration_index, applied, version_log>>
moreVars == <<askVars, pdfVars, migVars>>
workVars == <<workOwnVars, moreVars>>
auxVars == <<validateVars, allocVars, dollarVars, ampVars, sectionVars, workVars>>
vars == <<tagVars, planVars, citeVars, genVars, auxVars>>

(***************************************************************************)
(* Generic helpers                                                         *)
(***************************************************************************)
RECURSIVE SeqsUpTo(_, _)
SeqsUpTo(S, n) ==
    IF n = 0 THEN {<<>>}
    ELSE LET shorter == SeqsUpTo(S, n - 1)
         IN shorter \cup {Append(s, x) : s \in {t \in shorter : Len(t) = n - 1}, x \in S}

Last(s) == s[Len(s)]
Front(s) == SubSeq(s, 1, Len(s) - 1)

(***************************************************************************)
(* Tokens of a LaTeX fragment.  k is the kind, n a name (environment,      *)
(* citation key family, title), i a number (source number, symbol count).  *)
(***************************************************************************)
Tok(k, n, i) == [k |-> k, n |-> n, i |-> i]
Begin(X) == Tok("begin", X, 0)
End(X) == Tok("end", X, 0)
Text(syms) == Tok("text", "", syms)

(***************************************************************************)
(* validate_latex_tags (core/latex_template.py; not part of the sources at *)
(* hand, modelled from its specification and its tests): a single pass     *)
(* with a stack of open environment names.                                 *)
(***************************************************************************)
TagOk == [ok |-> TRUE, err |-> "", expected |-> "", got |-> "", open |-> <<>>]
TagError(kind, expected, got, open) ==
    [ok |-> FALSE, err |-> kind, expected |-> expected, got |-> got, open |-> open]

\* A validator that pops on every \end without comparing the names.
RECURSIVE ScanTagsIgnoringNames(_, _)
ScanTagsIgnoringNames(toks, stack) ==
    IF toks = <<>>
    THEN IF stack = <<>> THEN TagOk ELSE TagError("unclosed", "", "", stack)
    ELSE LET t == Head(toks) IN
         IF t.k = "begin" THEN ScanTagsIgnoringNames(Tail(toks), Append(stack, t.n))
         ELSE IF t.k = "end"
         THEN IF stack = <<>> THEN TagError("no_open", "", t.n, <<>>)
              ELSE ScanTagsIgnoringNames(Tail(toks), Front(stack))
         ELSE ScanTagsIgnoringNames(Tail(toks), stack)

\* A validator that reports only the innermost tag left open.
RECURSIVE ScanTagsReportingTop(_, _)
ScanTagsReportingTop(toks, stack) ==
    IF toks = <<>>
    THEN IF stack = <<>> THEN TagOk ELSE TagError("unclosed", "", "", <<Last(stack)>>)
    ELSE LET t == Head(toks) IN
         IF t.k = "begin" THEN ScanTagsReportingTop(Tail(toks), Append(stack, t.n))
         ELSE IF t.k = "end"
         THEN IF stack = <<>> THEN TagError("no_open", "", t.n, <<>>)
              ELSE IF Last(stack) # t.n THEN TagError("wrong_close", Last(stack), t.n, stack)
              ELSE ScanTagsReportingTop(Tail(toks), Front(stack))
         ELSE ScanTagsReportingTop(Tail(toks), stack)

RECURSIVE ScanTags(_, _)
ScanTags(toks, stack) ==
    IF toks = <<>>
    THEN IF stack = <<>> THEN TagOk ELSE TagError("unclosed", "", "", stack)
    ELSE LET t == Head(toks) IN
         IF t.k = "begin" THEN ScanTags(Tail(toks), Append(stack, t.n))
         ELSE IF t.k = "end"
         THEN IF stack = <<>> THEN TagError("no_open", "", t.n, <<>>)
              ELSE IF Last(stack) # t.n THEN TagError("wrong_close", Last(stack), t.n, stack)
              ELSE ScanTags(Tail(toks), Front(stack))
         ELSE ScanTags(Tail(toks), stack)

validate_latex_tags(content) == ScanTags(content, <<>>)

(***************************************************************************)
(* Plan texts.  A plan text is a list of lines (plan_text.split('\n')), a  *)
(* line a sequence of lexemes: "d" a digit, "." and ")" themselves, "s" a  *)
(* whitespace character, "G" the word "Глава" (any case), "R" a letter of  *)
(* [IVX] (any case), "-" and "*" themselves; any other string is a word of *)
(* a title.  isNone marks the value None (an LLM reply without content).   *)
(***************************************************************************)
PlanText(lines) == [isNone |-> FALSE, lines |-> lines]
NonePlan == [isNone |-> TRUE, lines |-> <<>>]

RECURSIVE LStrip(_)
LStrip(line) ==
    IF line # <<>> /\ Head(line) = "s" THEN LStrip(Tail(line)) ELSE line

RECURSIVE RStrip(_)
RStrip(line) ==
    IF line # <<>> /\ Last(line) = "s" THEN RStrip(Front(line)) ELSE line

Strip(line) == LStrip(RStrip(line))

\* Length of the longest prefix of line made of the lexeme c only.
RECURSIVE RunLen(_, _)
RunLen(line, c) ==
    IF line # <<>> /\ Head(line) = c THEN 1 + RunLen(Tail(line), c) ELSE 0

Drop(line, n) == SubSeq(line, n + 1, Len(line))

NoMatch == [match |-> FALSE, title |-> <<>>]
Match(title) == [match |-> TRUE, title |-> Strip(title)]

\* ^(\d+)<sep>\s*(.+)$ on a stripped line: the title is group 2.
NumberedTitle(line, sep) ==
    LET n == RunLen(line, "d") IN
    IF n >= 1 /\ Len(line) >= n + 2 /\ line[n + 1] = sep
    THEN Match(LStrip(Drop(line, n + 1)))
    ELSE NoMatch

\* ^Глава\s*(\d+)\.?\s*(.+)$ : when nothing is left for (.+) the engine
\* backtracks, giving up the optional dot or the last digit.
GlavaTitle(line) ==
    IF line = <<>> \/ Head(line) # "G" THEN NoMatch
    ELSE LET rest == LStrip(Tail(line))
             n == RunLen(rest, "d")
             after == Drop(rest, n)
         IN IF n = 0 THEN NoMatch
            ELSE IF after = <<>>
                 THEN IF n >= 2 THEN Match(<<"d">>) ELSE NoMatch
            ELSE IF Head(after) = "."
                 THEN IF Tail(after) = <<>> THEN Match(<<".">>)
                      ELSE Match(LStrip(Tail(after)))
            ELSE Match(LStrip(after))

\* ^[IVX]+\.\s*(.+)$ with re.IGNORECASE: the title is group 1.
RomanTitle(line) ==
    LET n == RunLen(line, "R") IN
    IF n >= 1 /\ Len(line) >= n + 2 /\ line[n + 1] = "."
    THEN Match(LStrip(Drop(line, n + 1)))
    ELSE NoMatch

\* The four chapter patterns in order; the first that matches decides.
_parse_chapter_title(line) ==
    IF NumberedTitle(line, ".").match THEN NumberedTitle(line, ".")
    ELSE IF GlavaTitle(line).match THEN GlavaTitle(line)
    ELSE IF NumberedTitle(line, ")").match THEN NumberedTitle(line, ")")
    ELSE RomanTitle(line)

\* ^(\d+\.\d+)\s*(.+)$ : the title is the last group.
DottedSubTitle(line) ==
    LET n == RunLen(line, "d")
        m == IF n >= 1 /\ Len(line) >= n + 1 /\ line[n + 1] = "."
             THEN RunLen(Drop(line, n + 1), "d") ELSE 0
        after == Drop(line, n + 1 + m)
    IN IF m = 0 THEN NoMatch
       ELSE IF after # <<>> THEN Match(LStrip(after))
       ELSE IF m >= 2 THEN Match(<<"d">>)
       ELSE NoMatch

\* ^-\s*(.+)$ and ^\*\s*(.+)$
BulletSubTitle(line, bullet) ==
    IF Len(line) >= 2 /\ Head(line) = bullet THEN Match(LStrip(Tail(line))) ELSE NoMatch

_parse_subsection_title(line) ==
    IF DottedSubTitle(line).match THEN DottedSubTitle(line)
    ELSE IF BulletSubTitle(line, "-").match THEN BulletSubTitle(line, "-")
    ELSE BulletSubTitle(line, "*")

Chapter(title, subs) == [title |-> title, subsections |-> subs]

\* The loop of parse_work_plan: current is the open chapter, in a list of
\* length 0 or 1 (None or a chapter).
RECURSIVE ParseLines(_, _, _)
ParseLines(lines, chapters, current) ==
    IF lines = <<>> THEN chapters \o current
    ELSE LET line == Strip(Head(lines))
             ch == _parse_chapter_title(line)
             sub == _parse_subsection_title(line)
         IN IF line = <<>> THEN ParseLines(Tail(lines), chapters, current)
            ELSE IF ch.match /\ ch.title # <<>>
            THEN ParseLines(Tail(lines), chapters \o current,
                            <<Chapter(ch.title, <<>>)>>)
            ELSE IF current # <<>> /\ sub.match /\ sub.title # <<>>
            THEN ParseLines(Tail(lines), chapters,
                            <<Chapter(current[1].title,
                                      Append(current[1].subsections, sub.title))>>)
            ELSE ParseLines(Tail(lines), chapters, current)

\* parse_work_plan raises on None (None has no split).
ParseRaises(text) == text.isNone
parse_work_plan(text) == ParseLines(text.lines, <<>>, <<>>)

(***************************************************************************)
(* Citation repair.  Tokens of an assembled document:                      *)
(*   Cite("source", K)   \cite{sourceK}                                    *)
(*   Cite(x, 0)          \cite{X}, X a non-empty key not of that form      *)
(*   Bibitem(K)          \bibitem{sourceK}                                 *)
(*   Heading(cmd, title) \section{..}, \section*{..} or \chapter{..}       *)
(***************************************************************************)
Cite(n, i) == Tok("cite", n, i)
Bibitem(K) == Tok("bibitem", "source", K)
Heading(cmd, title) == Tok(cmd, title, 0)

\* (?:Список|список)[^}]*(?:литературы|источников|использованных), any case
BibliographyTitles == {"SpisokLiteratury", "SpisokIspolzovannyhIstochnikov"}

IsBibliographyHeading(t, cmd) == t.k = cmd /\ t.n \in BibliographyTitles

\* \\cite\{(?!source\d+\})[^}]+\}
IsForeignCite(t) == t.k = "cite" /\ t.n # "source"

SeqMax(S) == IF S = {} THEN 0 ELSE CHOOSE m \in S : \A x \in S : x <= m

_extract_source_count_from_bibliography(bibliography_content) ==
    SeqMax({bibliography_content[j].i :
              j \in {q \in DOMAIN bibliography_content :
                        /\ bibliography_content[q].k = "bibitem"
                        /\ bibliography_content[q].n = "source"}})

RECURSIVE DeleteForeign(_)
DeleteForeign(content) ==
    IF content = <<>> THEN <<>>
    ELSE IF IsForeignCite(Head(content)) THEN DeleteForeign(Tail(content))
    ELSE <<Head(content)>> \o DeleteForeign(Tail(content))

\* replace_citation with the bound of the sequential phase off by one.
RECURSIVE replace_citation_past_count(_, _, _, _)
replace_citation_past_count(content, source_count, sequential_index, rnd) ==
    IF content = <<>> THEN <<>>
    ELSE IF ~IsForeignCite(Head(content))
    THEN <<Head(content)>> \o
         replace_citation_past_count(Tail(content), source_count, sequential_index, rnd)
    ELSE IF sequential_index <= source_count
    THEN <<Cite("source", sequential_index + 1)>> \o
         replace_citation_past_count(Tail(content), source_count, sequential_index + 1, rnd)
    ELSE <<Cite("source", Head(rnd))>> \o
         replace_citation_past_count(Tail(content), source_count, sequential_index, Tail(rnd))

\* re.sub(cite_pattern, replace_citation, content): rnd holds the values
\* random.randint(1, source_count) returns, in call order.
RECURSIVE replace_citation(_, _, _, _)
replace_citation(content, source_count, sequential_index, rnd) ==
    IF content = <<>> THEN <<>>
    ELSE IF ~IsForeignCite(Head(content))
    THEN <<Head(content)>> \o
         replace_citation(Tail(content), source_count, sequential_index, rnd)
    ELSE IF sequential_index < source_count
    THEN <<Cite("source", sequential_index + 1)>> \o
         replace_citation(Tail(content), source_count, sequential_index + 1, rnd)
    ELSE <<Cite("source", Head(rnd))>> \o
         replace_citation(Tail(content), source_count, sequential_index, Tail(rnd))

\* _replace_citations_in_content without the branch for an empty bibliography.
_replace_citations_keeping_foreign(content, bibliography_content, rnd) ==
    LET source_count == _extract_source_count_from_bibliography(bibliography_content) IN
    IF source_count = 0 THEN content
    ELSE replace_citation(content, source_count, 0, rnd)

_replace_citations_in_content(content, bibliography_content, rnd) ==
    LET source_count == _extract_source_count_from_bibliography(bibliography_content) IN
    IF source_count = 0 THEN DeleteForeign(content)
    ELSE replace_citation(content, source_count, 0, rnd)

\* Index of the first bibliography heading written with cmd, 0 when none.
FirstHeading(text, cmd) ==
    LET hits == {j \in DOMAIN text : IsBibliographyHeading(text[j], cmd)} IN
    IF hits = {} THEN 0 ELSE CHOOSE j \in hits : \A q \in hits : j <= q

\* The three bibliography_patterns in order; the first that matches decides.
BibliographyStart(text) ==
    IF FirstHeading(text, "section") > 0 THEN FirstHeading(text, "section")
    ELSE IF FirstHeading(text, "section*") > 0 THEN FirstHeading(text, "section*")
    ELSE FirstHeading(text, "chapter")

MainPart(text) ==
    IF BibliographyStart(text) = 0 THEN text
    ELSE SubSeq(text, 1, BibliographyStart(text) - 1)

BibliographyPart(text) ==
    IF BibliographyStart(text) = 0 THEN <<>>
    ELSE SubSeq(text, BibliographyStart(text), Len(text))

fix_citations_in_work_content(text, rnd) ==
    IF BibliographyPart(text) = <<>> THEN text
    ELSE _replace_citations_in_content(MainPart(text), BibliographyPart(text), rnd)
         \o BibliographyPart(text)

\* The number of random.randint calls repairing text makes, and the values
\* they may return.
NumForeign(content) == Cardinality({j \in DOMAIN content : IsForeignCite(content[j])})

RandomDraws(text) ==
    LET N == _extract_source_count_from_bibliography(BibliographyPart(text))
        overflow == IF N = 0 \/ NumForeign(MainPart(text)) <= N THEN 0
                    ELSE NumForeign(MainPart(text)) - N
    IN [1..overflow -> 1..N]

(***************************************************************************)
(* Page counts: exact rationals <<numerator, denominator>>, in pages, kept *)
(* in lowest terms with a positive denominator.                            *)
(***************************************************************************)
RECURSIVE GCD(_, _)
GCD(a, b) == IF b = 0 THEN a ELSE GCD(b, a % b)
Abs(a) == IF a < 0 THEN -a ELSE a

Rat(n, d) ==
    LET g == GCD(Abs(n), Abs(d))
        sgn == IF d < 0 THEN -1 ELSE 1
    IN <<(sgn * n) \div g, (sgn * d) \div g>>
RAdd(a, b) == Rat(a[1] * b[2] + b[1] * a[2], a[2] * b[2])
RSub(a, b) == Rat(a[1] * b[2] - b[1] * a[2], a[2] * b[2])
RMul(a, b) == Rat(a[1] * b[1], a[2] * b[2])
RDiv(a, k) == Rat(a[1], a[2] * k)
RLess(a, b) == a[1] * b[2] < b[1] * a[2]
RMax(a, b) == IF RLess(a, b) THEN b ELSE a

SYMBOLS_IN_PAGE == 1250
TITLE_PAGE_PAGES == Rat(1, 1)
TOC_PAGES_BASE == Rat(1, 2)
TOC_PAGES_PER_CHAPTER == Rat(5, 100)

\* len(remove_latex_commands(text)): commands and their arguments are
\* removed, every run of whitespace becomes one blank and the ends are
\* stripped, so the pieces of text count for their symbols and for one
\* blank between two neighbours.
IsText(t) == t.k = "text"

RECURSIVE SumSymbols(_)
SumSymbols(texts) ==
    IF texts = <<>> THEN 0 ELSE Head(texts).i + SumSymbols(Tail(texts))

SymbolCount(text) ==
    LET texts == SelectSeq(text, IsText) IN
    IF texts = <<>> THEN 0 ELSE SumSymbols(texts) + (Len(texts) - 1)

count_pages_in_text(text) == Rat(SymbolCount(text), SYMBOLS_IN_PAGE)

calculate_content_pages_for_target(total_target_pages, num_chapters) ==
    LET toc_pages == RAdd(TOC_PAGES_BASE, RMul(Rat(num_chapters, 1), TOC_PAGES_PER_CHAPTER))
        service_pages == RAdd(TITLE_PAGE_PAGES, toc_pages)
    IN RMax(Rat(1, 1), RSub(Rat(total_target_pages, 1), service_pages))

(***************************************************************************)
(* Titles.  A title is the sequence of lexemes the plan parser cut out of  *)
(* a line; its words carry the keywords the source looks for in           *)
(* title.lower().                                                          *)
(***************************************************************************)
Keywords(word) ==
    CASE word = "Vvedenie" -> {"vvedenie"}
      [] word = "Zaklyuchenie" -> {"zaklyuchenie"}
      [] word = "SpisokIspolzovannyhIstochnikov" -> {"spisok", "istochnik"}
      [] word = "SpisokLiteratury" -> {"spisok"}
      [] word = "Bibliografiya" -> {"bibliografiya"}
      [] word = "Literatura" -> {"literatura"}
      [] word = "Istochniki" -> {"istochnik"}
      [] OTHER -> {}

\* keyword in title.lower()
InTitle(keyword, title) == \E j \in DOMAIN title : keyword \in Keywords(title[j])

Glyph(lexeme) == IF lexeme = "d" THEN "1" ELSE IF lexeme = "s" THEN " " ELSE lexeme

\* The title as the string that is written into a heading.
RECURSIVE TitleString(_)
TitleString(title) ==
    IF title = <<>> THEN "" ELSE Glyph(Head(title)) \o TitleString(Tail(title))

_is_bibliography_chapter(chapter_title) ==
    \E keyword \in {"spisok", "bibliografiya", "istochnik", "literatura"} :
        InTitle(keyword, chapter_title)

\* _split_chapters: the main chapters, and the last bibliography chapter of
\* the plan in a list of length 0 or 1 (None or a chapter).
IsMainChapter(chapter) == ~_is_bibliography_chapter(chapter.title)
IsBibliographyChapter(chapter) == _is_bibliography_chapter(chapter.title)
MainChapters(chapters) == SelectSeq(chapters, IsMainChapter)
BibliographyChapter(chapters) ==
    LET found == SelectSeq(chapters, IsBibliographyChapter) IN
    IF found = <<>> THEN <<>> ELSE <<Last(found)>>

\* special_chapters with 0.5 under every key.
SpecialPagesHalf(title) ==
    IF InTitle("vvedenie", title) THEN Rat(1, 2)
    ELSE IF InTitle("zaklyuchenie", title) THEN Rat(1, 2)
    ELSE IF InTitle("spisok", title) THEN Rat(1, 2)
    ELSE IF InTitle("bibliografiya", title) THEN Rat(1, 2)
    ELSE Rat(0, 1)

\* special_chapters of calculate_pages_per_chapter: the first key, in the
\* order of the dict, that the title holds decides; <<0, 1>> when none.
SpecialPages(title) ==
    IF InTitle("vvedenie", title) THEN Rat(3, 2)
    ELSE IF InTitle("zaklyuchenie", title) THEN Rat(3, 2)
    ELSE IF InTitle("spisok", title) THEN Rat(1, 2)
    ELSE IF InTitle("bibliografiya", title) THEN Rat(1, 2)
    ELSE Rat(0, 1)
IsSpecial(title) == SpecialPages(title) # Rat(0, 1)

RECURSIVE SumSpecialPages(_)
SumSpecialPages(chapters) ==
    IF chapters = <<>> THEN Rat(0, 1)
    ELSE RAdd(SpecialPages(Head(chapters).title), SumSpecialPages(Tail(chapters)))

IsOrdinaryChapter(chapter) == ~IsSpecial(chapter.title)

\* calculate_pages_per_chapter(total_pages, chapters): the returned dict, a
\* function on the titles that were given an entry.  A chapter that is not
\* special has an entry only when there are pages left to share.
calculate_pages_per_chapter(total_pages, chapters) ==
    LET remaining_pages == RSub(total_pages, SumSpecialPages(chapters))
        ordinary == SelectSeq(chapters, IsOrdinaryChapter)
        shared == ordinary # <<>> /\ RLess(Rat(0, 1), remaining_pages)
        keys == { chapters[j].title : j \in
                    { n \in DOMAIN chapters : IsSpecial(chapters[n].title) \/ shared } }
    IN [title \in keys |->
           IF IsSpecial(title) THEN SpecialPages(title)
           ELSE RDiv(remaining_pages, Len(ordinary))]

\* calculate_pages_per_chapter(total_pages, chapters).get(title, default):
\* the entry of the returned dict for title, default when there is none.
PagesPerChapterGet(total_pages, chapters, title, default) ==
    LET pages_per_chapter == calculate_pages_per_chapter(total_pages, chapters)
    IN IF title \in DOMAIN pages_per_chapter THEN pages_per_chapter[title]
       ELSE default

\* current_pages <= target_pages * threshold
should_generate_subsections_at_threshold(current_pages, target_pages) ==
    ~RLess(RMul(target_pages, Rat(7, 10)), current_pages)

\* current_pages < target_pages * threshold, threshold = 0.7
should_generate_subsections(current_pages, target_pages) ==
    RLess(current_pages, RMul(target_pages, Rat(7, 10)))

(***************************************************************************)
(* fix_section_commands on a fragment whose headings stand each at the     *)
(* start of a line.                                                        *)
(***************************************************************************)
NewPage == Tok("newpage", "", 0)

IsSectionHeading(t) == t.k = "section" /\ t.n # ""
IsSectionOrSubsection(t) == t.k \in {"section", "subsection"}

\* with re.MULTILINE in the substitution as well: the first \section at the
\* start of any line is replaced.
fix_section_commands_any_line(content, expected_subsection_title) ==
    LET stripped == IF content # <<>> /\ Head(content) = NewPage THEN Tail(content) ELSE content
        found == { j \in DOMAIN stripped : IsSectionHeading(stripped[j]) }
        first == CHOOSE j \in found : \A r \in found : j <= r
        fixed == IF found # {}
                 THEN [stripped EXCEPT ![first] = Heading("subsection", stripped[first].n)]
                 ELSE stripped
    IN IF \E j \in DOMAIN fixed : IsSectionOrSubsection(fixed[j]) THEN fixed
       ELSE <<Heading("subsection", expected_subsection_title)>> \o fixed

fix_section_commands(content, expected_subsection_title) ==
    LET stripped == IF content # <<>> /\ Head(content) = NewPage THEN Tail(content) ELSE content
        \* re.search(section_pattern, ..., re.MULTILINE): any line start
        found == \E j \in DOMAIN stripped : IsSectionHeading(stripped[j])
        \* re.sub(section_pattern, ..., count=1), no flag: the start of the text only
        fixed == IF found /\ IsSectionHeading(Head(stripped))
                 THEN <<Heading("subsection", Head(stripped).n)>> \o Tail(stripped)
                 ELSE stripped
    IN IF \E j \in DOMAIN fixed : IsSectionOrSubsection(fixed[j]) THEN fixed
       ELSE <<Heading("subsection", expected_subsection_title)>> \o fixed

(***************************************************************************)
(* Inputs of the text functions                                            *)
(***************************************************************************)
MaxTagLen == 4
TagNames == {"figure", "table"}
TagTokens == {Begin(x) : x \in TagNames} \cup {End(x) : x \in TagNames} \cup {Text(1)}
TagInputs == SeqsUpTo(TagTokens, MaxTagLen)

MaxPlanLines == 3
NumberedLines == {<<"d", ".", "s", "Vvedenie">>, <<"d", ".", "s", "Teoriya">>}
GlavaLines == {<<"G", "s", "d", ".", "s", "Praktika">>}
SubItemLines == {<<"s", "s", "d", ".", "d", "s", "Ponyatiya">>}
OtherLines == {<<>>, <<"s", "-", "s", "Metody">>, <<"*", "Podhody">>,
               <<"Prosto", "s", "tekst">>, <<"G", "s", "d">>}
LineShapes == NumberedLines \cup GlavaLines \cup SubItemLines \cup OtherLines
PlanInputs == {PlanText(l) : l \in SeqsUpTo(LineShapes, MaxPlanLines)} \cup {NonePlan}

MaxDocLen == 5
DocTokens == {Cite("smith", 0), Cite("source", 3), Bibitem(1), Bibitem(2),
              Heading("section", "SpisokLiteratury"),
              Heading("section*", "SpisokLiteratury"), Text(1)}
DocInputs == SeqsUpTo(DocTokens, MaxDocLen)

TagPending == TagError("pending", "", "", <<>>)
PlanPending == [state |-> "pending", chapters |-> <<>>]
CitePending == [done |-> FALSE, text |-> <<>>]

IdleTags == tagContent = <<>> /\ tagResult = TagPending
IdlePlan == plan_text = NonePlan /\ planResult = PlanPending
IdleCite == full_content = <<>> /\ citeResult = CitePending

NoCall == [responses |-> <<>>, returned |-> <<>>, warnings |-> 0]
FreshLoop ==
    /\ chapter_index = 0 /\ attempt = 0 /\ last_content = <<>>
    /\ chapter_content = <<>> /\ subsections = <<>> /\ subsection_index = 0
    /\ subsections_content = <<>>
    /\ main_content = <<>> /\ total_pages_generated = Rat(0, 1)
    /\ requested = <<>> /\ call = NoCall /\ chapterLog = <<>>
    /\ genResult = <<>>
IdleGen ==
    /\ params = [plan_text |-> NonePlan, pages |-> 0]
    /\ pc = "idle" /\ plan_chapters = <<>> /\ FreshLoop

ValidationPending == [state |-> "pending", is_valid |-> FALSE, items_count |-> 0]
IdleValidate == pages = 0 /\ validation = ValidationPending
AllocPending == [state |-> "pending", pages_per_chapter |-> <<>>]
IdleAlloc ==
    /\ allocArgs = [total_pages |-> 0, chapters |-> <<>>]
    /\ allocResult = AllocPending
IdleDollars == dollarText = <<>> /\ dollarEscaped = <<>>
IdleAmpersands == ampText = <<>> /\ ampEscaped = <<>> /\ ampFixed = <<>>
SectionPending == [state |-> "pending", content |-> <<>>]
IdleSection ==
    /\ sectionArgs = [content |-> <<>>, expected_subsection_title |-> ""]
    /\ sectionResult = SectionPending
NoDocument == [built |-> FALSE, include_toc |-> FALSE]
NoDetails == <<"None">>
Orders == {1, 2}
NoAsk == [test |-> FALSE, api |-> "none", assistant_message |-> "None",
          result |-> "none"]
IdleAsk ==
    /\ history_of = [o \in Orders |-> <<>>] /\ askPc = [o \in Orders |-> "idle"]
    /\ askCall = [o \in Orders |-> NoAsk] /\ askCount = [o \in Orders |-> 0]
    /\ api_calls = [o \in Orders |-> <<>>] /\ actor = 0 /\ accessed = {}
PdfPending == [state |-> "pending", success |-> FALSE, pages |-> <<>>]
IdlePdf ==
    /\ pdfArgs = [pages |-> <<>>, payment_url |-> "", user_id |-> 0]
    /\ pdfResult = PdfPending
IdleMigrations ==
    /\ migration_files = {} /\ schema_version = {} /\ migPc = "idle"
    /\ current_version = 0 /\ migrations = <<>> /\ migration_index = 0
    /\ applied = <<>> /\ version_log = <<>>
IdleMore == IdleAsk /\ IdlePdf /\ IdleMigrations
IdleWorkOnly ==
    /\ order_info = [found |-> FALSE, pages |-> 0, test_mode |-> FALSE]
    /\ workPc = "idle" /\ order_status = "pending"
    /\ conversation_history = <<>> /\ work_requests = <<>> /\ plans = <<>>
    /\ full_tex = NoDocument /\ temp_dir = "None" /\ raised = "none"
    /\ error_details = NoDetails /\ sent = <<>> /\ status_writes = <<>>
    /\ handler_raised = FALSE
IdleWork == IdleWorkOnly /\ IdleMore
IdleAux ==
    /\ IdleValidate /\ IdleAlloc /\ IdleDollars /\ IdleAmpersands /\ IdleSection
    /\ IdleWork

(***************************************************************************)
(* validate_latex_tags applied to every content up to MaxTagLen tokens     *)
(***************************************************************************)
InitTags ==
    tagContent \in TagInputs /\ tagResult = TagPending /\ IdlePlan /\ IdleCite /\ IdleGen /\ IdleAux

ValidateTags ==
    /\ tagResult = TagPending
    /\ tagResult' = validate_latex_tags(tagContent)
    /\ UNCHANGED <<tagContent, planVars, citeVars, genVars, auxVars>>

NextTags == ValidateTags
SpecTags == InitTags /\ [][NextTags]_vars

(***************************************************************************)
(* parse_work_plan applied to every plan text up to MaxPlanLines lines     *)
(***************************************************************************)
InitPlan ==
    plan_text \in PlanInputs /\ planResult = PlanPending /\ IdleTags /\ IdleCite /\ IdleGen /\ IdleAux

ParsePlan ==
    /\ planResult = PlanPending
    /\ planResult' = IF ParseRaises(plan_text)
                     THEN [state |-> "raised", chapters |-> <<>>]
                     ELSE [state |-> "returned", chapters |-> parse_work_plan(plan_text)]
    /\ UNCHANGED <<plan_text, tagVars, citeVars, genVars, auxVars>>

NextPlan == ParsePlan
SpecPlan == InitPlan /\ [][NextPlan]_vars

(***************************************************************************)
(* fix_citations_in_work_content applied to every document up to MaxDocLen *)
(* tokens, under every outcome of random.randint                           *)
(***************************************************************************)
InitCite ==
    full_content \in DocInputs /\ citeResult = CitePending /\ IdleTags /\ IdlePlan /\ IdleGen /\ IdleAux

FixCitations ==
    /\ ~citeResult.done
    /\ \E rnd \in RandomDraws(full_content) :
         citeResult' = [done |-> TRUE,
                        text |-> fix_citations_in_work_content(full_content, rnd)]
    /\ UNCHANGED <<full_content, tagVars, planVars, genVars, auxVars>>

NextCite == FixCitations
SpecCite == InitCite /\ [][NextCite]_vars

(***************************************************************************)
(* generate_work_content_stepwise.  The answers of the LLM and the outcomes *)
(* of random.randint are the inputs of the steps; a step runs from one      *)
(* await of ask_assistant to the next.                                      *)
(***************************************************************************)
MAX_ATTEMPTS == 3
SMALL_WORK_PAGES == 2
MaxPages == 4

NumberedLine(title) == <<"d", ".", "s">> \o title

GenPlans ==
    { PlanText(<<NumberedLine(<<"Vvedenie">>), NumberedLine(<<"Teoriya">>),
                 <<"s", "-", "s", "Metody">>,
                 NumberedLine(<<"SpisokIspolzovannyhIstochnikov">>)>>),
      PlanText(<<NumberedLine(<<"Teoriya">>), NumberedLine(<<"Praktika">>),
                 NumberedLine(<<"Zaklyuchenie">>)>>),
      PlanText(<<NumberedLine(<<"Literatura">>)>>),
      PlanText(<<<<"Prosto", "s", "tekst">>>>),
      NonePlan }

\* What the LLM may answer to a request for a chapter, for the bibliography,
\* for the titles of subsections, for one subsection, for the whole work.
SmallChapter == <<Heading("section", "Glava"), Text(500), Cite("smith", 0)>>
BigChapter == <<Heading("section", "Glava"), Text(2500)>>
UnclosedFigure == <<Begin("figure"), Text(500)>>
StrayEnd == <<Text(350), End("table")>>
SourceList ==
    <<Heading("section", "SpisokLiteratury"), Begin("thebibliography"),
      Bibitem(1), End("thebibliography")>>
CitingList == <<Cite("smith", 0), Heading("section*", "SpisokLiteratury"), Bibitem(1)>>

ChapterResponses == {SmallChapter, BigChapter, UnclosedFigure, StrayEnd}
BibliographyResponses == {SourceList, CitingList, UnclosedFigure}
TitleResponses == {<<>>, <<<<"s", "Metody">>, <<>>, <<"Podhody", "s">>>>}
SubsectionResponses ==
    {<<Heading("section", "Podrazdel"), Text(400)>>, <<Text(300), Begin("table")>>}
LegacyResponses == {SmallChapter \o SourceList, UnclosedFigure}

\* The prompt generate_chapter_content builds for a title.
PromptKind(chapter_title) ==
    IF InTitle("vvedenie", chapter_title) THEN "introduction"
    ELSE IF InTitle("zaklyuchenie", chapter_title) THEN "conclusion"
    ELSE IF InTitle("spisok", chapter_title) \/ InTitle("bibliografiya", chapter_title)
         THEN "bibliography"
    ELSE "chapter"

\* The loop body of generate_chapter_content once the response has come:
\* the return value, or another attempt.
ChapterAttemptPastLimit(attempt_no, response) ==
    IF validate_latex_tags(response).ok
    THEN [finished |-> TRUE, content |-> response, warning |-> FALSE]
    ELSE IF attempt_no < MAX_ATTEMPTS
         THEN [finished |-> FALSE, content |-> response, warning |-> FALSE]
    ELSE [finished |-> TRUE, content |-> response, warning |-> TRUE]

ChapterAttempt(attempt_no, response) ==
    IF validate_latex_tags(response).ok
    THEN [finished |-> TRUE, content |-> response, warning |-> FALSE]
    ELSE IF attempt_no < MAX_ATTEMPTS - 1
         THEN [finished |-> FALSE, content |-> response, warning |-> FALSE]
    ELSE [finished |-> TRUE, content |-> response, warning |-> TRUE]

\* The same for one subsection of generate_subsections_content.
SubsectionAttemptOnce(attempt_no, subsection_content) ==
    [finished |-> TRUE, warning |-> ~validate_latex_tags(subsection_content).ok]

SubsectionAttempt(attempt_no, subsection_content) ==
    IF validate_latex_tags(subsection_content).ok
    THEN [finished |-> TRUE, warning |-> FALSE]
    ELSE IF attempt_no < MAX_ATTEMPTS - 1
         THEN [finished |-> FALSE, warning |-> FALSE]
    ELSE [finished |-> TRUE, warning |-> TRUE]

\* [s.strip() for s in subsections_text.split('\n') if s.strip()]
RECURSIVE SplitTitles(_)
SplitTitles(lines) ==
    IF lines = <<>> THEN <<>>
    ELSE (IF Strip(Head(lines)) = <<>> THEN <<>> ELSE <<Strip(Head(lines))>>)
         \o SplitTitles(Tail(lines))

\* The two conditions under which the plan is not used.
UsesLegacyOnRaiseOnly(text) == ParseRaises(text)

UsesLegacy(text) == ParseRaises(text) \/ parse_work_plan(text) = <<>>

generate_full_work_content_legacy(response, rnd) ==
    fix_citations_in_work_content(response, rnd)

\* total_pages_generated >= content_target_pages * 1.15
CeilingNeverReached(total, target) == FALSE

CeilingReached(total, target) == ~RLess(total, RMul(target, Rat(115, 100)))

\* (main_content + bibliography_content).strip(); the tokens carry no
\* whitespace of their own.
AssembleBibliographyFirst(main, bibliography) == bibliography \o main

Assemble(main, bibliography) == main \o bibliography

DefaultBibliographyTitle == <<"SpisokIspolzovannyhIstochnikov">>
BibliographyTarget == Rat(1, 2)

\* The locals of generate_work_content_stepwise.
main_chapters == MainChapters(plan_chapters)
bibliography_chapter == BibliographyChapter(plan_chapters)
content_target_pages ==
    calculate_content_pages_for_target(params.pages, Len(main_chapters))
pages_per_chapter(title) ==
    PagesPerChapterGet(RSub(content_target_pages, Rat(1, 2)), main_chapters,
                       title, Rat(2, 1))

\* The locals of _generate_main_chapters for the chapter in hand.
chapter_title == main_chapters[chapter_index].title
target_pages == pages_per_chapter(chapter_title)

Request(kind, title, prompt, target) ==
    [kind |-> kind, title |-> title, prompt |-> prompt, target |-> target]

InitGen ==
    /\ params \in [plan_text : GenPlans, pages : (SMALL_WORK_PAGES + 1)..MaxPages]
    /\ pc = "start" /\ plan_chapters = <<>> /\ FreshLoop
    /\ IdleTags /\ IdlePlan /\ IdleCite /\ IdleAux

\* generate_work_content_stepwise up to its first request.
Start ==
    /\ pc = "start"
    /\ plan_chapters' = IF ParseRaises(params.plan_text) THEN <<>>
                        ELSE parse_work_plan(params.plan_text)
    /\ IF UsesLegacy(params.plan_text) THEN pc' = "legacy" /\ chapter_index' = 0
       ELSE IF MainChapters(plan_chapters') = <<>>
            THEN pc' = "bibliography" /\ chapter_index' = 0
       ELSE pc' = "chapter" /\ chapter_index' = 1
    /\ UNCHANGED <<params, attempt, last_content, chapter_content, subsections,
                   subsection_index, subsections_content, main_content,
                   total_pages_generated, historyVars, genResult,
                   tagVars, planVars, citeVars, auxVars>>

\* _generate_main_chapters from the end of a chapter to the next request:
\* the chapter is appended and measured, the loop goes on or ends.
FinishChapter(content) ==
    LET total == RAdd(total_pages_generated, count_pages_in_text(content)) IN
    /\ main_content' = main_content \o content \o <<NewPage>>
    /\ total_pages_generated' = total
    /\ chapterLog' = Append(chapterLog, content)
    /\ IF CeilingReached(total, content_target_pages)
          \/ chapter_index = Len(main_chapters)
       THEN pc' = "bibliography" /\ chapter_index' = chapter_index
       ELSE pc' = "chapter" /\ chapter_index' = chapter_index + 1
    /\ attempt' = 0 /\ last_content' = <<>> /\ chapter_content' = <<>>
    /\ subsections' = <<>> /\ subsection_index' = 0 /\ subsections_content' = <<>>

\* generate_chapter_content for a main chapter: one request and what
\* follows it up to the next request.
AskChapter ==
    /\ pc = "chapter"
    /\ \E response \in ChapterResponses :
         LET r == ChapterAttempt(attempt, response)
             responses == IF attempt = 0 THEN <<response>>
                          ELSE Append(call.responses, response)
             planned == main_chapters[chapter_index].subsections
         IN
         /\ requested' = IF attempt = 0
                         THEN Append(requested,
                                     Request("chapter", chapter_title,
                                             PromptKind(chapter_title), target_pages))
                         ELSE requested
         /\ IF ~r.finished
            THEN /\ call' = [responses |-> responses, returned |-> <<>>, warnings |-> 0]
                 /\ attempt' = attempt + 1
                 /\ last_content' = response
                 /\ UNCHANGED <<pc, chapter_index, chapter_content, subsections,
                                subsection_index, subsections_content, main_content,
                                total_pages_generated, chapterLog>>
            ELSE /\ call' = [responses |-> responses, returned |-> <<r.content>>,
                             warnings |-> IF r.warning THEN 1 ELSE 0]
                 /\ IF should_generate_subsections(count_pages_in_text(r.content),
                                                   target_pages)
                    THEN /\ chapter_content' = r.content
                         /\ subsections' = planned
                         /\ pc' = IF planned = <<>> THEN "subsection_titles"
                                  ELSE "subsection"
                         /\ subsection_index' = IF planned = <<>> THEN 0 ELSE 1
                         /\ attempt' = 0 /\ last_content' = <<>>
                         /\ subsections_content' = <<>>
                         /\ UNCHANGED <<chapter_index, main_content,
                                        total_pages_generated, chapterLog>>
                    ELSE FinishChapter(r.content)
    /\ UNCHANGED <<params, plan_chapters, genResult, tagVars, planVars, citeVars, auxVars>>

\* generate_subsections_content without planned subsections: the LLM is
\* asked for titles.
AskSubsectionTitles ==
    /\ pc = "subsection_titles"
    /\ \E subsections_text \in TitleResponses :
         LET titles == SplitTitles(subsections_text) IN
         /\ requested' = Append(requested,
                                Request("subsection_titles", chapter_title, "titles",
                                        RSub(target_pages,
                                             count_pages_in_text(chapter_content))))
         /\ call' = NoCall
         /\ IF titles = <<>>
            THEN FinishChapter(chapter_content)
            ELSE /\ subsections' = titles
                 /\ subsection_index' = 1
                 /\ pc' = "subsection"
                 /\ UNCHANGED <<chapter_index, attempt, last_content, chapter_content,
                                subsections_content, main_content,
                                total_pages_generated, chapterLog>>
    /\ UNCHANGED <<params, plan_chapters, genResult, tagVars, planVars, citeVars, auxVars>>

\* generate_subsections_content: one request for the subsection in hand
\* and what follows it up to the next request.
AskSubsection ==
    /\ pc = "subsection"
    /\ \E response \in SubsectionResponses :
         LET subsection == subsections[subsection_index]
             subsection_content == fix_section_commands(response, TitleString(subsection))
             r == SubsectionAttempt(attempt, subsection_content)
             pages_per_subsection ==
                 RDiv(RSub(target_pages, count_pages_in_text(chapter_content)),
                      Len(subsections))
             responses == IF attempt = 0 THEN <<response>>
                          ELSE Append(call.responses, response)
         IN
         /\ requested' = IF attempt = 0
                         THEN Append(requested,
                                     Request("subsection", subsection, "subsection",
                                             pages_per_subsection))
                         ELSE requested
         /\ IF ~r.finished
            THEN /\ call' = [responses |-> responses, returned |-> <<>>, warnings |-> 0]
                 /\ attempt' = attempt + 1
                 /\ UNCHANGED <<pc, chapter_index, last_content, chapter_content,
                                subsections, subsection_index, subsections_content,
                                main_content, total_pages_generated, chapterLog>>
            ELSE /\ call' = [responses |-> responses,
                             returned |-> <<subsection_content>>,
                             warnings |-> IF r.warning THEN 1 ELSE 0]
                 /\ IF subsection_index < Len(subsections)
                    THEN /\ subsections_content' = subsections_content \o subsection_content
                         /\ subsection_index' = subsection_index + 1
                         /\ attempt' = 0
                         /\ UNCHANGED <<pc, chapter_index, last_content, chapter_content,
                                        subsections, main_content,
                                        total_pages_generated, chapterLog>>
                    ELSE FinishChapter(chapter_content \o subsections_content
                                       \o subsection_content)
    /\ UNCHANGED <<params, plan_chapters, genResult, tagVars, planVars, citeVars, auxVars>>

\* _generate_bibliography: one request; with the return value of
\* generate_chapter_content the document is assembled, repaired and returned.
AskBibliography ==
    /\ pc = "bibliography"
    /\ \E response \in BibliographyResponses :
         LET title == IF bibliography_chapter # <<>> THEN bibliography_chapter[1].title
                      ELSE DefaultBibliographyTitle
             r == ChapterAttempt(attempt, response)
             responses == IF attempt = 0 THEN <<response>>
                          ELSE Append(call.responses, response)
             document == Assemble(main_content, r.content)
         IN
         /\ requested' = IF attempt = 0
                         THEN Append(requested,
                                     Request("bibliography", title, PromptKind(title),
                                             BibliographyTarget))
                         ELSE requested
         /\ IF ~r.finished
            THEN /\ call' = [responses |-> responses, returned |-> <<>>, warnings |-> 0]
                 /\ attempt' = attempt + 1
                 /\ last_content' = response
                 /\ UNCHANGED <<pc, genResult>>
            ELSE /\ call' = [responses |-> responses, returned |-> <<r.content>>,
                             warnings |-> IF r.warning THEN 1 ELSE 0]
                 /\ \E rnd \in RandomDraws(document) :
                      genResult' = fix_citations_in_work_content(document, rnd)
                 /\ pc' = "done"
                 /\ attempt' = 0 /\ last_content' = <<>>
    /\ UNCHANGED <<params, plan_chapters, chapter_index, chapter_content, subsections,
                   subsection_index, subsections_content, main_content,
                   total_pages_generated, chapterLog, tagVars, planVars, citeVars, auxVars>>

\* generate_full_work_content_legacy, the fallback.
AskLegacy ==
    /\ pc = "legacy"
    /\ \E response \in LegacyResponses :
         \E rnd \in RandomDraws(response) :
            /\ requested' = Append(requested,
                                   Request("legacy", <<>>, "full_work",
                                           Rat(params.pages, 1)))
            /\ genResult' = generate_full_work_content_legacy(response, rnd)
            /\ call' = [responses |-> <<response>>,
                        returned |-> <<generate_full_work_content_legacy(response, rnd)>>,
                        warnings |-> 0]
    /\ pc' = "done"
    /\ UNCHANGED <<params, plan_chapters, loopVars, chapterLog, tagVars, planVars,
                   citeVars, auxVars>>

NextGen ==
    \/ Start
    \/ AskChapter
    \/ AskSubsectionTitles
    \/ AskSubsection
    \/ AskBibliography
    \/ AskLegacy

SpecGen == InitGen /\ [][NextGen]_vars

(***************************************************************************)
(* Claims about validate_latex_tags                                        *)
(***************************************************************************)
IsTag(t) == t.k \in {"begin", "end"}
TagsOf(content) == SelectSeq(content, IsTag)

\* Proper nesting, stated without a stack: deleting adjacent pairs
\* \begin{X}\end{X} again and again leaves nothing.
AdjacentPairs(ts) ==
    {j \in 1..(Len(ts) - 1) : ts[j].k = "begin" /\ ts[j + 1].k = "end" /\ ts[j].n = ts[j + 1].n}

RECURSIVE CancelPairs(_)
CancelPairs(ts) ==
    IF AdjacentPairs(ts) = {} THEN ts
    ELSE LET j == CHOOSE q \in AdjacentPairs(ts) : \A r \in AdjacentPairs(ts) : q <= r
         IN CancelPairs(SubSeq(ts, 1, j - 1) \o SubSeq(ts, j + 2, Len(ts)))

WellNested(content) == CancelPairs(TagsOf(content)) = <<>>

\* C9: validate_latex_tags returns (True, "") exactly when the \begin{X} /
\* \end{X} tokens of the content are properly nested; empty content, content
\* without tags and an environment nested in one of the same name are valid.
ThmC9 ==
    tagResult # TagPending =>
        /\ (tagResult = TagOk) <=> WellNested(tagContent)
        /\ tagResult.ok <=> (tagResult = TagOk)

WitC9 ==
    /\ tagContent = <<Begin("figure"), Begin("figure"), End("figure"), End("figure")>>
    /\ tagResult = TagOk

\* The first failure in scan order, stated with CancelPairs: the shortest
\* prefix of the tags whose residue holds an \end.
Residue(content, p) == CancelPairs(SubSeq(TagsOf(content), 1, p))
HasEnd(ts) == \E j \in DOMAIN ts : ts[j].k = "end"
FailingPrefixes(content) == {p \in 1..Len(TagsOf(content)) : HasEnd(Residue(content, p))}
FirstFailure(content) ==
    CHOOSE p \in FailingPrefixes(content) : \A q \in FailingPrefixes(content) : p <= q
NamesOf(ts) == [j \in DOMAIN ts |-> ts[j].n]

\* C10: on content that is not properly nested the result is False with the
\* error of the first failure in scan order: an \end{X} on an empty stack is
\* a closing tag without an open one, an \end{X} other than the innermost
\* open tag is a wrong closing tag naming both, tags left open at the end
\* are reported as unclosed with all open names.
ThmC10 ==
    (tagResult # TagPending /\ ~WellNested(tagContent)) =>
        /\ ~tagResult.ok
        /\ IF FailingPrefixes(tagContent) = {}
           THEN /\ tagResult.err = "unclosed"
                /\ tagResult.open = NamesOf(CancelPairs(TagsOf(tagContent)))
           ELSE LET p == FirstFailure(tagContent)
                    before == Residue(tagContent, p - 1)
                    closing == TagsOf(tagContent)[p]
                IN IF before = <<>>
                   THEN tagResult.err = "no_open" /\ tagResult.got = closing.n
                   ELSE /\ tagResult.err = "wrong_close"
                        /\ tagResult.expected = Last(before).n
                        /\ tagResult.got = closing.n

WitC10 ==
    /\ tagContent = <<Begin("figure"), Begin("table"), Text(1), Begin("table")>>
    /\ tagResult.err = "unclosed"
    /\ tagResult.open = <<"figure", "table", "table">>

(***************************************************************************)
(* Claims about parse_work_plan                                            *)
(***************************************************************************)
\* The documented plan format: chapter lines "N. Title" or "Глава N. Title",
\* indented sub-item lines "N.M Title" below a chapter line, blank lines.
ChapterLines == NumberedLines \cup GlavaLines
FirstNonBlank(lines) ==
    LET full == {j \in DOMAIN lines : lines[j] # <<>>} IN
    IF full = {} THEN 0 ELSE CHOOSE j \in full : \A q \in full : j <= q

InPlanFormat(text) ==
    /\ ~text.isNone
    /\ \A j \in DOMAIN text.lines : text.lines[j] \in ChapterLines \cup SubItemLines \cup {<<>>}
    /\ FirstNonBlank(text.lines) # 0
    /\ text.lines[FirstNonBlank(text.lines)] \in ChapterLines

IsChapterLine(line) == line \in ChapterLines
IsSubItemLine(line) == line \in SubItemLines

RECURSIVE TotalSubsections(_)
TotalSubsections(chapters) ==
    IF chapters = <<>> THEN 0
    ELSE Len(Head(chapters).subsections) + TotalSubsections(Tail(chapters))

\* C8: for a plan in the documented format with K chapter lines and S
\* sub-item lines parse_work_plan returns K chapters, in plan order, whose
\* subsection lists hold S entries in total.
CexC8 ==
    (planResult.state = "returned" /\ InPlanFormat(plan_text)) =>
        LET chapterLines == SelectSeq(plan_text.lines, IsChapterLine)
            subItemLines == SelectSeq(plan_text.lines, IsSubItemLine)
        IN /\ Len(planResult.chapters) = Len(chapterLines)
           /\ \A j \in DOMAIN chapterLines :
                  planResult.chapters[j].title = <<Last(chapterLines[j])>>
           /\ TotalSubsections(planResult.chapters) = Len(subItemLines)

(***************************************************************************)
(* Claims about citation repair                                            *)
(***************************************************************************)
SourceCount(text) == _extract_source_count_from_bibliography(BibliographyPart(text))
IsSourceCite(t) == t.k = "cite" /\ t.n = "source"
NotForeignCite(t) == ~IsForeignCite(t)

\* C5: after fix_citations_in_work_content, with N the largest K among the
\* \bibitem{sourceK} of the bibliography section, no \cite of the main text
\* refers to a sourceK with K > N, also when the input already held
\* \cite{sourceK} keys (stated for documents with a bibliography section
\* of at least one entry).
CexC5 ==
    (citeResult.done /\ BibliographyStart(full_content) > 0 /\ SourceCount(full_content) >= 1) =>
        \A j \in DOMAIN MainPart(citeResult.text) :
            IsSourceCite(citeResult.text[j]) =>
                citeResult.text[j].i <= SourceCount(citeResult.text)

\* The number of foreign \cite tokens among the first j tokens.
ForeignRank(content, j) == Cardinality({q \in 1..j : IsForeignCite(content[q])})

\* C6: with N bibliography entries the foreign \cite tokens of the main text
\* are rewritten in document order, the i-th to \cite{source i} for i <= N
\* and every later one to some \cite{sourceK} with K in 1..N; one counter
\* runs over the whole main text and nothing else changes.
ThmC6 ==
    (citeResult.done /\ BibliographyStart(full_content) > 0 /\ SourceCount(full_content) >= 1) =>
        LET N == SourceCount(full_content)
            out == citeResult.text
        IN /\ Len(out) = Len(full_content)
           /\ \A j \in DOMAIN full_content :
                IF j < BibliographyStart(full_content) /\ IsForeignCite(full_content[j])
                THEN /\ IsSourceCite(out[j])
                     /\ IF ForeignRank(full_content, j) <= N
                        THEN out[j].i = ForeignRank(full_content, j)
                        ELSE out[j].i \in 1..N
                ELSE out[j] = full_content[j]

WitC6 ==
    /\ citeResult.done
    /\ full_content = <<Cite("smith", 0), Cite("smith", 0), Cite("smith", 0),
                        Heading("section", "SpisokLiteratury"), Bibitem(2)>>
    /\ citeResult.text[2] = Cite("source", 2)
    /\ citeResult.text[3] = Cite("source", 1)

NoBibitems(text) == \A j \in DOMAIN text : text[j].k # "bibitem"

IsValid(content) == validate_latex_tags(content).ok

RequestsOf(kinds) == {k \in DOMAIN requested : requested[k].kind \in kinds}

\* Past the parse of the plan, on either side of the fallback.
OnStepwisePath ==
    pc \notin {"idle", "start"} /\ ~ParseRaises(params.plan_text)
    /\ plan_chapters # <<>>

OnLegacyPath ==
    pc \notin {"idle", "start"}
    /\ (ParseRaises(params.plan_text) \/ plan_chapters = <<>>)

\* The latest request went through generate_chapter_content.
InChapterCall ==
    requested # <<>> /\ Last(requested).kind \in {"chapter", "bibliography"}
    /\ call.responses # <<>>

\* C1: generate_chapter_content makes at most 3 requests for one chapter;
\* every response before the returned one was rejected by
\* validate_latex_tags; the return value is the first accepted response, and
\* then no warning goes to the administrator, or, all 3 responses rejected,
\* it is the third response unchanged and the warning is raised exactly once.
ThmC1 ==
    InChapterCall =>
        LET rs == call.responses
            n == Len(rs)
        IN /\ n <= 3
           /\ \A k \in 1..(n - 1) : ~IsValid(rs[k])
           /\ IF call.returned = <<>>
              THEN ~IsValid(rs[n]) /\ n < 3 /\ call.warnings = 0
              ELSE /\ call.returned = <<rs[n]>>
                   /\ IF IsValid(rs[n]) THEN call.warnings = 0
                      ELSE n = 3 /\ call.warnings = 1

\* Three rejected responses, the first and the third different: the third
\* came back and one warning was raised.
WitC1 ==
    /\ InChapterCall
    /\ Len(call.responses) = 3
    /\ call.responses[1] # call.responses[3]
    /\ call.returned = <<call.responses[3]>>
    /\ ~IsValid(call.responses[3])
    /\ call.warnings = 1

RECURSIVE MeasuredTotal(_)
MeasuredTotal(k) ==
    IF k = 0 THEN Rat(0, 1)
    ELSE RAdd(MeasuredTotal(k - 1), count_pages_in_text(chapterLog[k]))

BelowCeiling(total) == RLess(total, RMul(content_target_pages, Rat(115, 100)))

ChapterRequests == SelectSeq(requested, LAMBDA r : r.kind = "chapter")

RECURSIVE JoinChapters(_)
JoinChapters(log) ==
    IF log = <<>> THEN <<>>
    ELSE Head(log) \o <<NewPage>> \o JoinChapters(Tail(log))

LoopEnded == OnStepwisePath /\ pc \in {"bibliography", "done"}

\* The chapters are requested in plan order, chapter k + 1 only when the
\* total measured after chapter k is below content_target_pages * 1.15; the
\* loop ends after the last chapter or at the first total that is not below
\* it; the content is the finished chapters in order.
MainChaptersInOrder ==
    OnStepwisePath =>
        /\ Len(ChapterRequests) <= Len(main_chapters)
        /\ \A k \in DOMAIN ChapterRequests :
              ChapterRequests[k].title = main_chapters[k].title
        /\ Len(chapterLog) <= Len(ChapterRequests)
        /\ Len(ChapterRequests) <= Len(chapterLog) + 1
        /\ \A k \in 1..Len(chapterLog) :
              k < Len(ChapterRequests) => BelowCeiling(MeasuredTotal(k))
        /\ (pc = "chapter" /\ chapterLog # <<>>)
              => BelowCeiling(MeasuredTotal(Len(chapterLog)))
        /\ main_content = JoinChapters(chapterLog)
        /\ LoopEnded =>
              /\ Len(ChapterRequests) = Len(chapterLog)
              /\ Len(chapterLog) < Len(main_chapters)
                    => ~BelowCeiling(MeasuredTotal(Len(chapterLog)))

\* C2 as stated: ... and the returned content is a non-empty prefix of the
\* main chapters.
CexC2 == MainChaptersInOrder /\ (LoopEnded => chapterLog # <<>>)

\* C2: _generate_main_chapters requests the main chapters in plan order and
\* goes on from chapter i to chapter i + 1 if and only if the running total
\* of measured pages is below content_target_pages * 1.15; no chapter after
\* the first one at which the total reached the ceiling is requested; the
\* returned content is a prefix of the main chapters, non-empty whenever
\* the plan has a main chapter.
ThmC2 ==
    MainChaptersInOrder
    /\ (LoopEnded /\ main_chapters # <<>> => chapterLog # <<>>)

\* The loop ended at the ceiling with a chapter of the plan left out.
WitC2 ==
    /\ LoopEnded
    /\ chapterLog # <<>>
    /\ Len(chapterLog) < Len(main_chapters)
    /\ BelowCeiling(MeasuredTotal(Len(chapterLog) - 1))

IsSuffix(tail, text) ==
    Len(tail) <= Len(text)
    /\ SubSeq(text, Len(text) - Len(tail) + 1, Len(text)) = tail

NotCite(t) == t.k # "cite"

ThmC4 ==
    OnLegacyPath =>
        /\ RequestsOf({"chapter", "subsection_titles", "subsection", "bibliography"}) = {}
        /\ Len(requested) <= 1
        /\ pc = "done" =>
              /\ Len(requested) = 1
              /\ requested[1].kind = "legacy"
              /\ Len(call.responses) = 1
              /\ \E rnd \in RandomDraws(call.responses[1]) :
                    genResult = generate_full_work_content_legacy(call.responses[1], rnd)

\* A plan text that parses to no chapter at all went the legacy way.
WitC4 ==
    /\ pc = "done"
    /\ ~ParseRaises(params.plan_text)
    /\ params.plan_text.lines # <<>>
    /\ parse_work_plan(params.plan_text) = <<>>
    /\ Len(requested) = 1 /\ requested[1].kind = "legacy"
    /\ genResult # <<>>

(***************************************************************************)
(* validate_work_plan applied to every plan text up to MaxPlanLines lines  *)
(* and every number of pages up to MaxTargetPages                          *)
(***************************************************************************)
MaxTargetPages == 9

count_plan_items_chapters_only(chapters) == Len(chapters)

RECURSIVE count_plan_items(_)
count_plan_items(chapters) ==
    IF chapters = <<>> THEN 0
    ELSE 1 + Len(Head(chapters).subsections) + count_plan_items(Tail(chapters))

validate_work_plan(text, target_pages_count) ==
    IF ParseRaises(text)
    THEN [state |-> "returned", is_valid |-> FALSE, items_count |-> 0]
    ELSE LET items_count == count_plan_items(parse_work_plan(text))
             min_items == IF target_pages_count \div 3 > 1
                          THEN target_pages_count \div 3 ELSE 1
         IN [state |-> "returned", is_valid |-> items_count >= min_items,
             items_count |-> items_count]

InitValidate ==
    /\ plan_text \in PlanInputs /\ planResult = PlanPending
    /\ pages \in 0..MaxTargetPages /\ validation = ValidationPending
    /\ IdleTags /\ IdleCite /\ IdleGen /\ IdleAlloc /\ IdleDollars /\ IdleAmpersands
    /\ IdleSection /\ IdleWork

ValidatePlan ==
    /\ validation = ValidationPending
    /\ validation' = validate_work_plan(plan_text, pages)
    /\ UNCHANGED <<pages, planVars, tagVars, citeVars, genVars, allocVars, dollarVars,
                   ampVars, sectionVars, workVars>>

NextValidate == ValidatePlan
SpecValidate == InitValidate /\ [][NextValidate]_vars

(***************************************************************************)
(* Claims about validate_work_plan                                         *)
(***************************************************************************)
ParsedChapters == IF plan_text.isNone THEN <<>> ELSE parse_work_plan(plan_text)

RequiredItems == IF pages \div 3 >= 1 THEN pages \div 3 ELSE 1

\* C11: validate_work_plan returns (valid, n) with n the number of parsed
\* chapters plus the number of parsed subsections and valid if and only if
\* n >= max(1, pages // 3); a plan text in which no chapter is recognised
\* (the empty text included) yields (False, 0).
ThmC11 ==
    validation.state = "returned" =>
        /\ validation.items_count
              = Len(ParsedChapters) + TotalSubsections(ParsedChapters)
        /\ validation.is_valid <=> validation.items_count >= RequiredItems
        /\ ParsedChapters = <<>>
              => ~validation.is_valid /\ validation.items_count = 0

\* Two chapters and one subsection for 9 pages: exactly the minimum.
WitC11 ==
    /\ validation.state = "returned"
    /\ pages = 9
    /\ Len(ParsedChapters) = 2
    /\ TotalSubsections(ParsedChapters) = 1
    /\ validation.is_valid
    /\ validation.items_count = 3

(***************************************************************************)
(* calculate_pages_per_chapter applied to every list of up to MaxChapters  *)
(* chapters with titles of AllocTitles and every total of 0..MaxTotalPages.*)
(***************************************************************************)
MaxChapters == 3
MaxTotalPages == 6

AllocTitles ==
    { <<"Vvedenie">>, <<"Zaklyuchenie">>, <<"SpisokLiteratury">>,
      <<"Bibliografiya">>, <<"Teoriya">>, <<"Praktika">>,
      <<"Zaklyuchenie", "s", "SpisokLiteratury">> }

AllocChapters ==
    UNION { [1..n -> { Chapter(title, <<>>) : title \in AllocTitles }] :
            n \in 0..MaxChapters }

InitAlloc ==
    /\ allocArgs \in [total_pages : 0..MaxTotalPages, chapters : AllocChapters]
    /\ allocResult = AllocPending
    /\ IdleTags /\ IdlePlan /\ IdleCite /\ IdleGen /\ IdleValidate /\ IdleDollars /\ IdleAmpersands
    /\ IdleSection /\ IdleWork

CalculatePages ==
    /\ allocResult = AllocPending
    /\ allocResult' =
          [state |-> "returned",
           pages_per_chapter |->
               calculate_pages_per_chapter(Rat(allocArgs.total_pages, 1),
                                           allocArgs.chapters)]
    /\ UNCHANGED <<allocArgs, validateVars, dollarVars, ampVars, sectionVars, workVars, tagVars, planVars,
                   citeVars, genVars>>

NextAlloc == CalculatePages
SpecAlloc == InitAlloc /\ [][NextAlloc]_vars

(***************************************************************************)
(* Claims about calculate_pages_per_chapter                                *)
(***************************************************************************)
HasIntroKey(title) == InTitle("vvedenie", title) \/ InTitle("zaklyuchenie", title)
HasListKey(title) == InTitle("spisok", title) \/ InTitle("bibliografiya", title)

FixedAllocation(title) ==
    IF HasIntroKey(title) THEN Rat(3, 2)
    ELSE IF HasListKey(title) THEN Rat(1, 2)
    ELSE Rat(0, 1)

RECURSIVE SumFixed(_)
SumFixed(chapters) ==
    IF chapters = <<>> THEN Rat(0, 1)
    ELSE RAdd(FixedAllocation(Head(chapters).title), SumFixed(Tail(chapters)))

AllocRemainder == RSub(Rat(allocArgs.total_pages, 1), SumFixed(allocArgs.chapters))
AllocRemaining ==
    { j \in DOMAIN allocArgs.chapters :
        /\ ~HasIntroKey(allocArgs.chapters[j].title)
        /\ ~HasListKey(allocArgs.chapters[j].title) }
AllocReturned == allocResult.state = "returned"
AllocHas(title, share) ==
    /\ title \in DOMAIN allocResult.pages_per_chapter
    /\ allocResult.pages_per_chapter[title] = share

\* C12 as stated: every title with "vvedenie" or "zaklyuchenie" has 1.5
\* pages, every title with "spisok" or "bibliografiya" has 0.5 pages, and a
\* positive remainder is shared evenly among the remaining chapters.
CexC12 ==
    AllocReturned =>
        \A j \in DOMAIN allocArgs.chapters :
            LET title == allocArgs.chapters[j].title IN
            /\ HasIntroKey(title) => AllocHas(title, Rat(3, 2))
            /\ HasListKey(title) => AllocHas(title, Rat(1, 2))
            /\ (j \in AllocRemaining /\ RLess(Rat(0, 1), AllocRemainder)) =>
                   AllocHas(title, RDiv(AllocRemainder, Cardinality(AllocRemaining)))

\* C12, amended: calculate_pages_per_chapter gives every chapter whose title
\* holds "vvedenie" or "zaklyuchenie" exactly 1.5 pages, every chapter whose
\* title holds "spisok" or "bibliografiya" and neither of the former exactly
\* 0.5 pages, and, when total_pages less the fixed allocations is positive,
\* every remaining chapter that remainder divided by their number.
ThmC12 ==
    AllocReturned =>
        \A j \in DOMAIN allocArgs.chapters :
            LET title == allocArgs.chapters[j].title IN
            /\ HasIntroKey(title) => AllocHas(title, Rat(3, 2))
            /\ (HasListKey(title) /\ ~HasIntroKey(title)) => AllocHas(title, Rat(1, 2))
            /\ (j \in AllocRemaining /\ RLess(Rat(0, 1), AllocRemainder)) =>
                   AllocHas(title, RDiv(AllocRemainder, Cardinality(AllocRemaining)))

\* 5 pages over an introduction, one ordinary chapter and the list of
\* sources: 1.5, 3 and 0.5.
WitC12 ==
    /\ AllocReturned
    /\ allocArgs.total_pages = 5
    /\ allocArgs.chapters =
          <<Chapter(<<"Vvedenie">>, <<>>), Chapter(<<"Teoriya">>, <<>>),
            Chapter(<<"SpisokLiteratury">>, <<>>)>>
    /\ AllocHas(<<"Vvedenie">>, Rat(3, 2))
    /\ AllocHas(<<"Teoriya">>, Rat(3, 1))
    /\ AllocHas(<<"SpisokLiteratury">>, Rat(1, 2))

(***************************************************************************)
(* Claims about the page targets of the main chapters                      *)
(***************************************************************************)
ChapterAllocation ==
    calculate_pages_per_chapter(RSub(content_target_pages, Rat(1, 2)), main_chapters)
ChapterRemainder ==
    RSub(RSub(content_target_pages, Rat(1, 2)), SumFixed(main_chapters))
NothingLeftForChapter ==
    /\ OnStepwisePath /\ pc = "chapter"
    /\ ~HasIntroKey(chapter_title) /\ ~HasListKey(chapter_title)
    /\ ~RLess(Rat(0, 1), ChapterRemainder)

\* C13 as stated: when the fixed allocations leave no pages, a chapter
\* that is not special has zero pages in the dict of
\* calculate_pages_per_chapter and zero as its target_pages in
\* _generate_main_chapters.
CexC13 ==
    NothingLeftForChapter =>
        /\ chapter_title \in DOMAIN ChapterAllocation
        /\ ChapterAllocation[chapter_title] = Rat(0, 1)
        /\ target_pages = Rat(0, 1)

(***************************************************************************)
(* Claims about the expansion of a chapter by subsections                  *)
(***************************************************************************)
InSubsections == pc \in {"subsection_titles", "subsection"}

\* measured < 0.7 * target and measured < target on the fractions
\* themselves, <<numerator, denominator>> with a positive denominator.
BelowThreshold(measured, target) ==
    10 * measured[1] * target[2] < 7 * target[1] * measured[2]
BelowTarget(measured, target) ==
    measured[1] * target[2] < target[1] * measured[2]

ChapterBodyReturned == pc = "chapter" /\ call'.returned # <<>>
SubsectionsInvoked == ~InSubsections /\ InSubsections'

InvokedWhenBelowThreshold ==
    /\ SubsectionsInvoked => ChapterBodyReturned
    /\ ChapterBodyReturned =>
          (InSubsections' <=>
             BelowThreshold(count_pages_in_text(call'.returned[1]), target_pages))
    /\ SubsectionsInvoked => chapter_content' = call'.returned[1]

BudgetPositive ==
    InSubsections => BelowTarget(count_pages_in_text(chapter_content), target_pages)

\* C14: for each main chapter generate_subsections_content is invoked
\* exactly when the measured pages of the chapter body are strictly below
\* 0.7 times the target pages of the chapter, and its budget, the target
\* less the measured pages, is positive throughout the invocation.
ThmC14 == [][InvokedWhenBelowThreshold]_vars /\ []BudgetPositive

\* A body of 0.4 pages for a target of 2 pages: subsections are asked for
\* with a budget of 1.6 pages.
WitC14 ==
    /\ pc = "subsection_titles"
    /\ chapter_content = SmallChapter
    /\ target_pages = Rat(2, 1)
    /\ RSub(target_pages, count_pages_in_text(chapter_content)) = Rat(8, 5)

(***************************************************************************)
(* Escaping (core/latex_template.py).  A text is the sequence of its       *)
(* characters, each a string of length one; a math marker that stands in   *)
(* for a formula is one element, the string of its name.                   *)
(***************************************************************************)
Backslash == "\\"

\* text.replace('\\\\' + c, '\\' + c): the pairs are replaced from the left,
\* none of them overlapping.
RECURSIVE UndoDoubleEscape(_, _)
UndoDoubleEscape(text, c) ==
    IF Len(text) < 3 THEN text
    ELSE IF text[1] = Backslash /\ text[2] = Backslash /\ text[3] = c
         THEN <<Backslash, c>> \o UndoDoubleEscape(SubSeq(text, 4, Len(text)), c)
    ELSE <<Head(text)>> \o UndoDoubleEscape(Tail(text), c)

\* re.sub(r'(?<!\\)' + c, '\\' + c, text)
RECURSIVE Flatten(_)
Flatten(pieces) ==
    IF pieces = <<>> THEN <<>> ELSE Head(pieces) \o Flatten(Tail(pieces))

EscapeUnescaped(text, c) ==
    Flatten([j \in DOMAIN text |->
                IF text[j] = c /\ (j = 1 \/ text[j - 1] # Backslash)
                THEN <<Backslash, c>> ELSE <<text[j]>>])

smart_escape_ampersands(text) == EscapeUnescaped(UndoDoubleEscape(text, "&"), "&")

\* f"__MATH_MARKER_{marker_counter}__"
MathMarker(marker_counter) == "__MATH_MARKER_" \o ToString(marker_counter) \o "__"

\* The least q >= from with text[q], text[q + 1] the closing pair; 0 if none.
FirstClose(text, close, from) ==
    LET found == { q \in from..(Len(text) - 1) : <<text[q], text[q + 1]>> = close }
    IN IF found = {} THEN 0 ELSE CHOOSE q \in found : \A r \in found : q <= r

\* re.sub(open + '.*?' + close, replace_math_with_marker, text, flags=DOTALL)
\* for delimiters of two characters: the text and the markers afterwards.
RECURSIVE MarkSpans(_, _, _, _)
MarkSpans(text, open, close, markers) ==
    IF text = <<>> THEN [text |-> <<>>, markers |-> markers]
    ELSE LET q == IF Len(text) >= 2 /\ <<text[1], text[2]>> = open
                  THEN FirstClose(text, close, 3) ELSE 0
         IN IF q > 0
            THEN LET rest == MarkSpans(SubSeq(text, q + 2, Len(text)), open, close,
                                       Append(markers, SubSeq(text, 1, q + 1)))
                 IN [text |-> <<MathMarker(Len(markers))>> \o rest.text,
                     markers |-> rest.markers]
            ELSE LET rest == MarkSpans(Tail(text), open, close, markers)
                 IN [text |-> <<Head(text)>> \o rest.text, markers |-> rest.markers]

\* [a-zA-Z_^{}\(\)\[\]+\-*/=<>] on the characters of the texts at hand; the
\* name of a marker is made of letters.
Letters == {"a", "b", "c", "t", "x", "y", "C"}
MathChars ==
    Letters \cup {"_", "^", "{", "}", "(", ")", "[", "]", "+", "-", "*", "/", "=", "<", ">"}
IsMathChar(c) == c \in MathChars \/ Len(c) > 1
has_math_chars(content) == \E j \in DOMAIN content : IsMathChar(content[j])

\* re.sub(r'(?<!\$)\$(?!\$)((?:(?!\$).)*?)\$(?!\$)',
\*        replace_inline_math_if_valid, text, flags=DOTALL);
\* previous is the character in front of the text, "" at the start.  A
\* content with a math character is never just a number.
RECURSIVE MarkInlineMath(_, _, _)
MarkInlineMath(text, previous, markers) ==
    IF text = <<>> THEN [text |-> <<>>, markers |-> markers]
    ELSE LET later == { q \in 2..Len(text) : text[q] = "$" }
             q == IF later = {} THEN 0 ELSE CHOOSE n \in later : \A r \in later : n <= r
             matches == /\ text[1] = "$" /\ previous # "$"
                        /\ q > 2
                        /\ (q = Len(text) \/ text[q + 1] # "$")
         IN IF matches
            THEN IF has_math_chars(SubSeq(text, 2, q - 1))
                 THEN LET rest == MarkInlineMath(SubSeq(text, q + 1, Len(text)), "$",
                                                 Append(markers, SubSeq(text, 1, q)))
                      IN [text |-> <<MathMarker(Len(markers))>> \o rest.text,
                          markers |-> rest.markers]
                 ELSE LET rest == MarkInlineMath(SubSeq(text, q + 1, Len(text)), "$",
                                                 markers)
                      IN [text |-> SubSeq(text, 1, q) \o rest.text,
                          markers |-> rest.markers]
            ELSE LET rest == MarkInlineMath(Tail(text), Head(text), markers)
                 IN [text |-> <<Head(text)>> \o rest.text, markers |-> rest.markers]

\* for marker, original_math in markers: text = text.replace(marker, original_math)
RECURSIVE RestoreMarkers(_, _, _)
RestoreMarkers(text, markers, done) ==
    IF done = Len(markers) THEN text
    ELSE RestoreMarkers(
             Flatten([j \in DOMAIN text |->
                         IF text[j] = MathMarker(done) THEN markers[done + 1]
                         ELSE <<text[j]>>]),
             markers, done + 1)

smart_escape_dollars(text) ==
    LET display == MarkSpans(text, <<"$", "$">>, <<"$", "$">>, <<>>)
        round == MarkSpans(display.text, <<Backslash, "(">>, <<Backslash, ")">>,
                           display.markers)
        square == MarkSpans(round.text, <<Backslash, "[">>, <<Backslash, "]">>,
                            round.markers)
        inline == MarkInlineMath(square.text, "", square.markers)
        escaped == EscapeUnescaped(UndoDoubleEscape(inline.text, "$"), "$")
    IN RestoreMarkers(escaped, inline.markers, 0)

(***************************************************************************)
(* smart_escape_dollars applied, and applied again to what it returned, to *)
(* every text of up to MaxEscLen characters of DollarAlphabet and to the   *)
(* texts of DollarSamples.                                                 *)
(***************************************************************************)
MaxEscLen == 4
Applications == 2

DollarAlphabet == {"$", Backslash, "1", "x", "(", ")", " "}
DollarSamples ==
    { <<"$", "C", "(", "t", ")", "$", " ", "c", " ", "$", "5">>,
      <<"$", "1", "0", ",", " ", "$", "2", "0", ",", " ", "$", "3", "0">>,
      <<"$", "1", "0", " ", "a", " ", "$", "2", "0">>,
      <<"a", " ", "$", "1", "0", " ", "b", " ", "$", "x", "$">>,
      <<"$", "$", "x", "$", "$", " ", Backslash, "(", "y", Backslash, ")", " ",
        Backslash, "[", "a", "=", "b", Backslash, "]">>,
      <<Backslash, "[", "$", "$", "x", "$", "$", Backslash, "]">> }
DollarInputs ==
    UNION { [1..n -> DollarAlphabet] : n \in 0..MaxEscLen } \cup DollarSamples

InitDollars ==
    /\ dollarText \in DollarInputs /\ dollarEscaped = <<>>
    /\ IdleTags /\ IdlePlan /\ IdleCite /\ IdleGen /\ IdleValidate /\ IdleAlloc
    /\ IdleAmpersands /\ IdleSection /\ IdleWork

SmartEscapeDollars ==
    /\ Len(dollarEscaped) < Applications
    /\ dollarEscaped' =
          Append(dollarEscaped,
                 smart_escape_dollars(IF dollarEscaped = <<>> THEN dollarText
                                      ELSE Last(dollarEscaped)))
    /\ UNCHANGED <<dollarText, validateVars, allocVars, ampVars, sectionVars, workVars, tagVars, planVars,
                   citeVars, genVars>>

NextDollars == SmartEscapeDollars
SpecDollars == InitDollars /\ [][NextDollars]_vars

(***************************************************************************)
(* Claims about smart_escape_dollars                                       *)
(***************************************************************************)
\* C15 as stated: smart_escape_dollars applied to what it returned returns
\* the same text, for every text of dollars, backslashes, digits, letters
\* and math delimiters.
CexC15 ==
    Len(dollarEscaped) >= 2 => dollarEscaped[2] = dollarEscaped[1]

Digits == {"0", "1", "2", "3", "5"}

\* Every dollar of the text stands at the start or after a blank, directly
\* in front of a digit, and the text has no backslash.
AllMoney(text) ==
    \A j \in DOMAIN text :
        /\ text[j] # Backslash
        /\ text[j] = "$" =>
              /\ j < Len(text) /\ text[j + 1] \in Digits
              /\ (j = 1 \/ text[j - 1] = " ")

EscapeEvery(text) ==
    Flatten([j \in DOMAIN text |->
                IF text[j] = "$" THEN <<Backslash, "$">> ELSE <<text[j]>>])

\* C16 as stated, for the texts whose every dollar denotes money (it
\* stands directly in front of an amount): smart_escape_dollars outputs
\* each of these dollars as \$ and leaves the rest of the text as it is.
CexC16 ==
    (dollarEscaped # <<>> /\ AllMoney(dollarText)) =>
        dollarEscaped[1] = EscapeEvery(dollarText)

(***************************************************************************)
(* fix_bibliography_ampersands.  A heading is one element of the text, the *)
(* string of the command; the first of bibliography_patterns finds         *)
(* HeadingList, the second HeadingListStar, and neither finds              *)
(* HeadingChapter.  No text at hand has a \chapter for the third.          *)
(***************************************************************************)
HeadingList == "\\section{SpisokLiteratury}"
HeadingListStar == "\\section*{SpisokLiteratury}"
HeadingChapter == "\\section{Glava}"
IsSectionCommand(c) == c \in {HeadingList, HeadingListStar, HeadingChapter}

\* match.group(1) of re.search(pattern, content): from the first heading of
\* the pattern up to the next \section or the end; <<>> without a match.
BibliographySection(content, heading) ==
    LET starts == { j \in DOMAIN content : content[j] = heading } IN
    IF starts = {} THEN <<>>
    ELSE LET p == CHOOSE j \in starts : \A r \in starts : j <= r
             stops == { j \in (p + 1)..Len(content) : IsSectionCommand(content[j]) }
             e == IF stops = {} THEN Len(content) + 1
                  ELSE CHOOSE j \in stops : \A r \in stops : j <= r
         IN SubSeq(content, p, e - 1)

\* content.replace(old, new), old not empty
RECURSIVE Replace(_, _, _)
Replace(content, old, new) ==
    IF Len(content) < Len(old) THEN content
    ELSE IF SubSeq(content, 1, Len(old)) = old
         THEN new \o Replace(SubSeq(content, Len(old) + 1, Len(content)), old, new)
    ELSE <<Head(content)>> \o Replace(Tail(content), old, new)

fix_bibliography_ampersands(content) ==
    LET plain == BibliographySection(content, HeadingList)
        starred == BibliographySection(content, HeadingListStar)
        bibliography_section == IF plain # <<>> THEN plain ELSE starred
    IN IF bibliography_section = <<>> THEN content
       ELSE Replace(content, bibliography_section,
                    smart_escape_ampersands(bibliography_section))

(***************************************************************************)
(* smart_escape_ampersands and fix_bibliography_ampersands applied, and    *)
(* applied again to what they returned, to every text of up to MaxEscLen   *)
(* elements of AmpAlphabet and to the texts of AmpSamples.                 *)
(***************************************************************************)
AmpAlphabet == {"&", Backslash, "a", HeadingList, HeadingChapter}
AmpSamples ==
    { <<"a", "&", HeadingListStar, "a", "&", "a", HeadingChapter, "&">>,
      <<HeadingListStar, "&", HeadingList, "&", HeadingList, "&", "a">>,
      <<HeadingList, "a", Backslash, Backslash, Backslash, "&", "a">> }
AmpInputs == UNION { [1..n -> AmpAlphabet] : n \in 0..MaxEscLen } \cup AmpSamples

InitAmpersands ==
    /\ ampText \in AmpInputs /\ ampEscaped = <<>> /\ ampFixed = <<>>
    /\ IdleTags /\ IdlePlan /\ IdleCite /\ IdleGen /\ IdleValidate /\ IdleAlloc
    /\ IdleDollars /\ IdleSection /\ IdleWork

SmartEscapeAmpersands ==
    /\ Len(ampEscaped) < Applications
    /\ ampEscaped' =
          Append(ampEscaped,
                 smart_escape_ampersands(IF ampEscaped = <<>> THEN ampText
                                         ELSE Last(ampEscaped)))
    /\ UNCHANGED <<ampText, ampFixed, validateVars, allocVars, dollarVars, sectionVars, workVars, tagVars,
                   planVars, citeVars, genVars>>

FixBibliographyAmpersands ==
    /\ Len(ampFixed) < Applications
    /\ ampFixed' =
          Append(ampFixed,
                 fix_bibliography_ampersands(IF ampFixed = <<>> THEN ampText
                                             ELSE Last(ampFixed)))
    /\ UNCHANGED <<ampText, ampEscaped, validateVars, allocVars, dollarVars, sectionVars, workVars, tagVars,
                   planVars, citeVars, genVars>>

NextAmpersands == SmartEscapeAmpersands \/ FixBibliographyAmpersands
SpecAmpersands == InitAmpersands /\ [][NextAmpersands]_vars

(***************************************************************************)
(* Claims about the escaping of ampersands                                 *)
(***************************************************************************)
\* C17 as stated: smart_escape_ampersands applied to what it returned
\* returns the same text, and so does fix_bibliography_ampersands.
CexC17 ==
    /\ Len(ampEscaped) >= 2 => ampEscaped[2] = ampEscaped[1]
    /\ Len(ampFixed) >= 2 => ampFixed[2] = ampFixed[1]

(***************************************************************************)
(* fix_section_commands applied to every fragment of up to MaxFragLen      *)
(* lines of FragmentTokens.                                                *)
(***************************************************************************)
MaxFragLen == 4

FragmentTokens ==
    { Heading("section", "Glava"), Heading("section", ""),
      Heading("subsection", "Podrazdel"), Text(1), NewPage }

InitSection ==
    /\ sectionArgs \in [content : SeqsUpTo(FragmentTokens, MaxFragLen),
                        expected_subsection_title : {"Metody"}]
    /\ sectionResult = SectionPending
    /\ IdleTags /\ IdlePlan /\ IdleCite /\ IdleGen /\ IdleValidate /\ IdleAlloc
    /\ IdleDollars /\ IdleAmpersands /\ IdleWork

FixSectionCommands ==
    /\ sectionResult = SectionPending
    /\ sectionResult' =
          [state |-> "returned",
           content |-> fix_section_commands(sectionArgs.content,
                                            sectionArgs.expected_subsection_title)]
    /\ UNCHANGED <<sectionArgs, validateVars, allocVars, dollarVars, ampVars, workVars, tagVars,
                   planVars, citeVars, genVars>>

NextSection == FixSectionCommands
SpecSection == InitSection /\ [][NextSection]_vars

(***************************************************************************)
(* Claims about fix_section_commands                                       *)
(***************************************************************************)
SectionReturned == sectionResult.state = "returned"

\* The content as the function works on it, a \newpage at its start set
\* aside.
Fragment ==
    IF sectionArgs.content # <<>> /\ Head(sectionArgs.content).k = "newpage"
    THEN Tail(sectionArgs.content) ELSE sectionArgs.content

TitledSections == { j \in DOMAIN Fragment : Fragment[j].k = "section" /\ Fragment[j].n # "" }
FirstTitledSection == CHOOSE j \in TitledSections : \A r \in TitledSections : j <= r
SectionCommands == { j \in DOMAIN Fragment : Fragment[j].k \in {"section", "subsection"} }
ExpectedHeading == Tok("subsection", sectionArgs.expected_subsection_title, 0)

MAX_PLAN_ATTEMPTS == 3
MaxWorkPages == 4
MaxContentRequests == 2

\* ask_assistant: the messages of the order after one request.  Nothing is
\* kept in the test mode; an error of the API leaves the request without
\* an answer.
AskAssistant(history, test_mode, answered) ==
    IF test_mode THEN history
    ELSE (IF history = <<>> THEN <<"system">> ELSE history)
             \o <<"user">> \o (IF answered THEN <<"assistant">> ELSE <<>>)

\* What generate_work_plan may return: the plans of SpecGen and a second
\* text without a chapter line.
WorkPlans == (GenPlans \ {NonePlan}) \cup {PlanText(<<<<"G", "s", "d">>>>)}

\* max(plans, key=lambda x: x[1]): the first of the plans with the most items
ChosenPlanLatest(received) ==
    LET best == { j \in DOMAIN received :
                    \A r \in DOMAIN received :
                        received[r].items_count <= received[j].items_count }
    IN received[CHOOSE j \in best : \A r \in best : j >= r]

ChosenPlan(received) ==
    LET best == { j \in DOMAIN received :
                    \A r \in DOMAIN received :
                        received[r].items_count <= received[j].items_count }
    IN received[CHOOSE j \in best : \A r \in best : j <= r]

\* compile_latex_to_pdf: the path of the PDF when pdflatex left one of
\* more than MIN_PDF_SIZE_BYTES, otherwise the message with the whole of
\* stdout and stderr of both passes.
PassOutputs == {"", "! Undefined control sequence."}
CompilerOutputs == [1..4 -> PassOutputs]
compile_latex_to_pdf(pdf_made, output) ==
    IF pdf_made THEN [success |-> TRUE, result |-> <<"pdf_file">>]
    ELSE [success |-> FALSE,
          result |-> <<"LaTeX compilation failed">> \o output]

Message(to, what, details) == [to |-> to, what |-> what, details |-> details]

\* send_error_log_to_admin: nothing without the order; the whole of
\* error_details for a LaTeXCompilationError, in one message or cut in
\* consecutive parts, str(error) otherwise.
send_error_log_to_admin(found, is_latex_error, details) ==
    IF ~found THEN <<>>
    ELSE IF is_latex_error THEN <<Message("admin", "latex_error_log", details)>>
    ELSE <<Message("admin", "error_log", <<>>)>>

InitWork ==
    /\ order_info \in [found : BOOLEAN, pages : 1..MaxWorkPages, test_mode : BOOLEAN]
    /\ workPc = "start" /\ order_status = "pending"
    /\ conversation_history \in {<<>>, <<"system", "user">>}
    /\ work_requests = <<>> /\ plans = <<>>
    /\ full_tex = NoDocument /\ temp_dir = "None" /\ raised = "none"
    /\ error_details = NoDetails /\ sent = <<>> /\ status_writes = <<>>
    /\ handler_raised = FALSE
    /\ IdleTags /\ IdlePlan /\ IdleCite /\ IdleGen
    /\ IdleValidate /\ IdleAlloc /\ IdleDollars /\ IdleAmpersands /\ IdleSection
    /\ IdleMore

TextVars ==
    <<tagVars, planVars, citeVars, genVars, validateVars, allocVars, dollarVars,
      ampVars, sectionVars>>
OtherVars == <<TextVars, moreVars>>

\* update_order_status(order_id, 'generating'), get_order_info and the
\* choice of the path.
StartWork ==
    /\ workPc = "start"
    /\ order_status' = "generating"
    /\ status_writes' = Append(status_writes, "generating")
    /\ IF ~order_info.found
       THEN raised' = "error" /\ workPc' = "except"
       ELSE /\ raised' = raised
            /\ workPc' = IF order_info.pages = SMALL_WORK_PAGES THEN "simple_body"
                         ELSE "plan"
    /\ UNCHANGED <<order_info, conversation_history, work_requests, plans, full_tex,
                   temp_dir, error_details, sent, handler_raised, OtherVars>>

\* An await of the try block raises something else than LaTeXCompilationError.
RaiseAfterCompleted ==
    /\ \/ workPc \in {"start", "simple_body", "simple_bibliography", "plan",
                      "content", "save", "compile", "send", "complete"}
       \/ workPc = "finally" /\ raised = "none"
    /\ raised' = "error" /\ workPc' = "except"
    /\ UNCHANGED <<order_info, order_status, conversation_history, work_requests,
                   plans, full_tex, temp_dir, error_details, sent, status_writes,
                   handler_raised, OtherVars>>

Raise ==
    /\ workPc \in {"start", "simple_body", "simple_bibliography", "plan", "content",
                   "save", "compile", "send", "complete"}
    /\ raised' = "error" /\ workPc' = "except"
    /\ UNCHANGED <<order_info, order_status, conversation_history, work_requests,
                   plans, full_tex, temp_dir, error_details, sent, status_writes,
                   handler_raised, OtherVars>>

\* generate_simple_work_content: the request for the body.
AskSimpleBody ==
    /\ workPc = "simple_body"
    /\ work_requests' = Append(work_requests, "body")
    /\ \E answered \in BOOLEAN :
         conversation_history' =
             AskAssistant(conversation_history, order_info.test_mode, answered)
    /\ workPc' = "simple_bibliography"
    /\ UNCHANGED <<order_info, order_status, plans, full_tex, temp_dir, raised,
                   error_details, sent, status_writes, handler_raised, OtherVars>>

\* generate_simple_work_content: the request for the sources, and
\* create_latex_document(theme, content, include_toc=False).
AskSimpleBibliography ==
    /\ workPc = "simple_bibliography"
    /\ work_requests' = Append(work_requests, "bibliography")
    /\ \E answered \in BOOLEAN :
         conversation_history' =
             AskAssistant(conversation_history, order_info.test_mode, answered)
    /\ full_tex' = [built |-> TRUE, include_toc |-> FALSE]
    /\ workPc' = "save"
    /\ UNCHANGED <<order_info, order_status, plans, temp_dir, raised, error_details,
                   sent, status_writes, handler_raised, OtherVars>>

\* _generate_large_work: one round of the loop over the plans.
AskPlan ==
    /\ workPc = "plan"
    /\ \E plan \in WorkPlans, answered \in BOOLEAN :
         LET checked == validate_work_plan(plan, order_info.pages) IN
         /\ work_requests' = Append(work_requests, "plan")
         /\ conversation_history' =
                AskAssistant(conversation_history, order_info.test_mode, answered)
         /\ plans' = Append(plans, [plan |-> plan, items_count |-> checked.items_count])
         /\ workPc' = IF checked.is_valid \/ Len(plans) + 1 = MAX_PLAN_ATTEMPTS
                      THEN "content" ELSE "plan"
    /\ UNCHANGED <<order_info, order_status, full_tex, temp_dir, raised,
                   error_details, sent, status_writes, handler_raised, OtherVars>>

\* generate_work_content_stepwise with the chosen plan, and
\* create_latex_document(theme, content, include_toc=True).
GenerateContent ==
    /\ workPc = "content"
    /\ \E n \in 1..MaxContentRequests :
         /\ work_requests' = work_requests \o [j \in 1..n |-> "content"]
         /\ conversation_history' =
                IF order_info.test_mode THEN conversation_history
                ELSE (IF conversation_history = <<>> THEN <<"system">>
                      ELSE conversation_history)
                         \o Flatten([j \in 1..n |-> <<"user", "assistant">>])
    /\ full_tex' = [built |-> TRUE, include_toc |-> TRUE, plan |-> ChosenPlan(plans).plan]
    /\ workPc' = "save"
    /\ UNCHANGED <<order_info, order_status, plans, temp_dir, raised, error_details,
                   sent, status_writes, handler_raised, OtherVars>>

\* save_full_tex and tempfile.mkdtemp()
MakeTempDir ==
    /\ workPc = "save"
    /\ temp_dir' = "exists"
    /\ workPc' = "compile"
    /\ UNCHANGED <<order_info, order_status, conversation_history, work_requests,
                   plans, full_tex, raised, error_details, sent, status_writes,
                   handler_raised, OtherVars>>

\* _compile_and_send_files up to compile_latex_to_pdf: the .tex file goes
\* to the administrator, and a failure reported by compile_latex_to_pdf is
\* raised as LaTeXCompilationError(result).
Compile ==
    /\ workPc = "compile"
    /\ \E pdf_made \in BOOLEAN, output \in CompilerOutputs :
         LET compiled == compile_latex_to_pdf(pdf_made, output) IN
         IF compiled.success
         THEN workPc' = "send" /\ raised' = raised /\ error_details' = error_details
         ELSE workPc' = "except" /\ raised' = "latex"
              /\ error_details' = compiled.result
    /\ sent' = Append(sent, Message("admin", "tex_file", <<>>))
    /\ UNCHANGED <<order_info, order_status, conversation_history, work_requests,
                   plans, full_tex, temp_dir, status_writes, handler_raised, OtherVars>>

\* _compile_and_send_files from the invoice link to
\* send_generated_files_to_user: the PDF, partial or, when the partial one
\* could not be made, full, and the DOCX when there is one.
SendFiles ==
    /\ workPc = "send"
    /\ sent' = Append(sent, Message("user", "generated_files", <<>>))
    /\ workPc' = "complete"
    /\ UNCHANGED <<order_info, order_status, conversation_history, work_requests,
                   plans, full_tex, temp_dir, raised, error_details, status_writes,
                   handler_raised, OtherVars>>

\* The closing messages of _compile_and_send_files and
\* update_order_status(order_id, 'completed').
Complete ==
    /\ workPc = "complete"
    /\ sent' = Append(sent, Message("user", "success", <<>>))
    /\ order_status' = "completed"
    /\ status_writes' = Append(status_writes, "completed")
    /\ workPc' = "finally"
    /\ UNCHANGED <<order_info, conversation_history, work_requests, plans, full_tex,
                   temp_dir, raised, error_details, handler_raised, OtherVars>>

\* _handle_generation_error that leaves the order as it is: nothing is
\* written and nobody is told.
HandleErrorSilently ==
    /\ workPc = "except"
    /\ workPc' = "finally"
    /\ UNCHANGED <<order_info, order_status, conversation_history, work_requests,
                   plans, full_tex, temp_dir, raised, error_details, sent,
                   status_writes, handler_raised, OtherVars>>

\* _handle_generation_error: update_order_status(order_id, 'failed'), which
\* alone can raise out of the handler, then send_error_log_to_admin and
\* the message to the user, the short one when edit_message_text or
\* send_message failed.
HandleError ==
    /\ workPc = "except"
    /\ \E db_ok \in BOOLEAN, edit_ok \in BOOLEAN :
         IF ~db_ok
         THEN /\ handler_raised' = TRUE
              /\ UNCHANGED <<order_status, status_writes, sent>>
         ELSE /\ handler_raised' = handler_raised
              /\ order_status' = "failed"
              /\ status_writes' = Append(status_writes, "failed")
              /\ sent' = sent
                    \o send_error_log_to_admin(order_info.found, raised = "latex",
                                               error_details)
                    \o <<Message("user",
                                 IF ~edit_ok THEN "error_short"
                                 ELSE IF raised = "latex" THEN "compilation_error"
                                 ELSE "generation_error", <<>>)>>
    /\ workPc' = "finally"
    /\ UNCHANGED <<order_info, conversation_history, work_requests, plans, full_tex,
                   temp_dir, raised, error_details, OtherVars>>

\* The cleanup at the end of the try block only, after
\* update_order_status(order_id, 'completed').
FinallyAfterSuccessOnly ==
    /\ workPc = "finally"
    /\ conversation_history' = IF raised = "none" THEN <<>> ELSE conversation_history
    /\ temp_dir' = IF raised = "none" /\ temp_dir = "exists" THEN "removed" ELSE temp_dir
    /\ workPc' = "finished"
    /\ UNCHANGED <<order_info, order_status, work_requests, plans, full_tex, raised,
                   error_details, sent, status_writes, handler_raised, OtherVars>>

\* finally: clear_conversation(order_id) and shutil.rmtree(temp_dir); the
\* removal of a directory that exists is taken to succeed.
Finally ==
    /\ workPc = "finally"
    /\ conversation_history' = <<>>
    /\ temp_dir' = IF temp_dir = "exists" THEN "removed" ELSE temp_dir
    /\ workPc' = "finished"
    /\ UNCHANGED <<order_info, order_status, work_requests, plans, full_tex, raised,
                   error_details, sent, status_writes, handler_raised, OtherVars>>

NextWork ==
    \/ StartWork \/ Raise \/ AskSimpleBody \/ AskSimpleBibliography \/ AskPlan
    \/ GenerateContent \/ MakeTempDir \/ Compile \/ SendFiles \/ Complete
    \/ HandleError \/ Finally
SpecWork == InitWork /\ [][NextWork]_vars

(***************************************************************************)
(* Claims about generate_work_async                                        *)
(***************************************************************************)
WorkCompleted == workPc = "finished" /\ raised = "none"

FilesSent == \E j \in DOMAIN sent : sent[j] = Message("user", "generated_files", <<>>)
AdminHasCompilerLog ==
    \E j \in DOMAIN sent : sent[j] = Message("admin", "latex_error_log", error_details)
UserToldOfError ==
    \E j \in DOMAIN sent :
        /\ sent[j].to = "user"
        /\ sent[j].what \in {"compilation_error", "error_short"}
CarriesCompilerOutput ==
    \E output \in CompilerOutputs :
        error_details = <<"LaTeX compilation failed">> \o output
MaxRequests == 2

ChatMessage(role, order, n) == [role |-> role, order |-> order, n |-> n]

\* init_conversation(order_id, theme)
init_conversation(order) ==
    <<ChatMessage("system", order, 0), ChatMessage("user", order, 0)>>

\* clear_conversation(order_id): del conversation_history[order_id]
clear_conversation_all(history, order) == [o \in DOMAIN history |-> <<>>]
clear_conversation(history, order) == [history EXCEPT ![order] = <<>>]

\* The parameters of log_llm_request and the keywords ask_assistant calls it
\* with; a call binds when every keyword names a parameter and every
\* parameter (none has a default) is given, and raises TypeError otherwise.
LogParameters == {"params"}
LogKeywords ==
    {"order_id", "model_name", "prompt", "response", "error", "duration_ms",
     "conversation_history"}
CallBinds(parameters, keywords) == keywords \subseteq parameters /\ parameters \subseteq keywords

ErrorString(api) ==
    IF api = "no_choices" THEN "error: empty reply" ELSE "error: exception"

InitAsk ==
    /\ history_of \in {[o \in Orders |-> IF o \in started THEN init_conversation(o)
                                         ELSE <<>>] : started \in SUBSET Orders}
    /\ askPc = [o \in Orders |-> "ready"]
    /\ askCall = [o \in Orders |-> NoAsk] /\ askCount = [o \in Orders |-> 0]
    /\ api_calls = [o \in Orders |-> <<>>] /\ actor = 0 /\ accessed = {}
    /\ IdleTags /\ IdlePlan /\ IdleCite /\ IdleGen
    /\ IdleValidate /\ IdleAlloc /\ IdleDollars /\ IdleAmpersands /\ IdleSection
    /\ IdleWorkOnly /\ IdlePdf /\ IdleMigrations

AskOtherVars == <<TextVars, workOwnVars, pdfVars, migVars>>

\* ask_assistant up to its first await.  With the test model the answer is
\* made at once by _generate_test_response, which looks the history of the
\* order up and sends nothing; otherwise the entry is made if missing, the
\* prompt is appended and the messages of the order go to the API.
AskBegin(o) ==
    /\ askPc[o] = "ready" /\ askCount[o] < MaxRequests
    /\ \E test \in BOOLEAN :
         IF test
         THEN /\ askCall' = [askCall EXCEPT ![o] =
                    [test |-> TRUE, api |-> "none", assistant_message |-> "test data",
                     result |-> "pending"]]
              /\ askPc' = [askPc EXCEPT ![o] = "finally"]
              /\ UNCHANGED <<history_of, api_calls>>
         ELSE LET base == IF history_of[o] = <<>> THEN <<ChatMessage("system", o, 0)>>
                          ELSE history_of[o]
                  messages == Append(base, ChatMessage("user", o, askCount[o] + 1))
              IN /\ history_of' = [history_of EXCEPT ![o] = messages]
                 /\ api_calls' = [api_calls EXCEPT ![o] = messages]
                 /\ askCall' = [askCall EXCEPT ![o] =
                       [test |-> FALSE, api |-> "none", assistant_message |-> "None",
                        result |-> "pending"]]
                 /\ askPc' = [askPc EXCEPT ![o] = "awaiting"]
    /\ actor' = o /\ accessed' = {o}
    /\ UNCHANGED <<askCount, AskOtherVars>>

\* The await of client.chat.completions.create ends: with a choice, whose
\* content is appended to the history of the order, with no choice, or
\* with an exception.
ApiAnswer(o) ==
    /\ askPc[o] = "awaiting"
    /\ \E api \in {"content", "no_choices", "exception"} :
         /\ askCall' = [askCall EXCEPT ![o] =
               [@ EXCEPT !.api = api,
                         !.assistant_message =
                             IF api = "content" THEN "content" ELSE ErrorString(api)]]
         /\ history_of' =
               IF api = "content"
               THEN [history_of EXCEPT ![o] =
                        Append(@, ChatMessage("assistant", o, askCount[o] + 1))]
               ELSE history_of
         /\ accessed' = IF api = "content" THEN {o} ELSE {}
    /\ askPc' = [askPc EXCEPT ![o] = "finally"]
    /\ actor' = o
    /\ UNCHANGED <<askCount, api_calls, AskOtherVars>>

\* The call of log_llm_request that ends both paths of ask_assistant, in
\* the finally clause of the one and before the return of the other, and
\* what the caller gets.
AskEnd(o) ==
    /\ askPc[o] = "finally"
    /\ askCall' = [askCall EXCEPT ![o] =
          [@ EXCEPT !.result = IF CallBinds(LogParameters, LogKeywords)
                               THEN "returned" ELSE "TypeError"]]
    /\ askCount' = [askCount EXCEPT ![o] = @ + 1]
    /\ askPc' = [askPc EXCEPT ![o] = "ready"]
    /\ actor' = o /\ accessed' = IF askCall[o].test THEN {} ELSE {o}
    /\ UNCHANGED <<history_of, api_calls, AskOtherVars>>

\* clear_conversation(order_id) of the task of the order
ClearConversation(o) ==
    /\ askPc[o] = "ready" /\ askCount[o] > 0
    /\ history_of' = clear_conversation(history_of, o)
    /\ askPc' = [askPc EXCEPT ![o] = "cleared"]
    /\ actor' = o /\ accessed' = {o}
    /\ UNCHANGED <<askCall, askCount, api_calls, AskOtherVars>>

NextAsk ==
    \E o \in Orders : AskBegin(o) \/ ApiAnswer(o) \/ AskEnd(o) \/ ClearConversation(o)
SpecAsk == InitAsk /\ [][NextAsk]_vars

(***************************************************************************)
(* Claims about ask_assistant                                              *)
(***************************************************************************)
AskFinished(o) == askCall[o].result \notin {"none", "pending"}

\* C22 as stated: ask_assistant never raises on a transport error or on an
\* empty reply of the model; it returns the error string (which the
\* content generator then takes for content).
CexC22 ==
    \A o \in Orders :
        (AskFinished(o) /\ askCall[o].api \in {"exception", "no_choices"}) =>
            /\ askCall[o].result = "returned"
            /\ askCall[o].assistant_message = ErrorString(askCall[o].api)

\* C23: orders that run at the same time are isolated.  Whatever the
\* interleaving of the steps of ask_assistant and clear_conversation of two
\* orders, a step of one order looks up no key of conversation_history but
\* its own and leaves the messages kept for the other order as they are,
\* and the messages an order sends to the API are its own history: every
\* one of them was put there for that order, and nothing is added to or
\* taken from that history while the request is awaited.
IsolatedStep ==
    /\ accessed' \subseteq {actor'}
    /\ \A b \in Orders \ {actor'} : history_of'[b] = history_of[b]
OwnHistorySent ==
    \A o \in Orders :
        /\ \A j \in DOMAIN api_calls[o] : api_calls[o][j].order = o
        /\ askPc[o] = "awaiting" => api_calls[o] = history_of[o]
ThmC23 == [][IsolatedStep]_vars /\ []OwnHistorySent

\* Order 2 has just cleared its conversation, after a request of its own,
\* while order 1 awaits the answer to its second request.
WitC23 ==
    /\ askPc[1] = "awaiting" /\ askCount[1] = 1
    /\ askPc[2] = "cleared" /\ actor = 2 /\ api_calls[2] # <<>>
    /\ Len(history_of[1]) >= 4 /\ api_calls[1] = history_of[1]

(***************************************************************************)
(* Claims about the warnings of the validation loops                       *)
(***************************************************************************)
\* WorkContentParams as _generate_large_work builds it: the fields it
\* passes, and bot, which it does not pass and which is None by default.
WorkContentParamsGiven ==
    {"order_id", "model_name", "theme", "pages", "work_type", "plan_text",
     "progress_callback"}
WorkContentParamsBot == IF "bot" \in WorkContentParamsGiven THEN "bot" ELSE "None"

\* _send_validation_warning_to_admin: the number of calls of send_admin_log
\* it makes.
_send_validation_warning_to_admin(bot, found) ==
    IF bot = "None" THEN 0 ELSE IF ~found THEN 0 ELSE 1

AdminWarningsSent ==
    call.warnings * _send_validation_warning_to_admin(WorkContentParamsBot, TRUE)

\* C24 as stated: in the flow generate_work_async, _generate_large_work,
\* generate_work_content_stepwise, when a chapter or a subsection has used
\* its 3 attempts without a valid response, the last output is used and
\* send_admin_log is called with a warning for it.
CexC24 ==
    (/\ Len(call.responses) = MAX_ATTEMPTS
     /\ call.returned # <<>>
     /\ call.warnings = 1)
        => AdminWarningsSent = 1

(***************************************************************************)
(* create_partial_pdf_with_qr (core/document_converter.py) applied to      *)
(* every full PDF of up to MaxPdfPages pages.  A page of the full PDF is   *)
(* what it shows; the QR page is made from payment_url and user_id.        *)
(***************************************************************************)
MaxPdfPages == 5

\* A page of the full PDF
PdfPage(shows) == [qr |-> "", user_id |-> 0, shows |-> shows]
PdfPageContents == {PdfPage("text"), PdfPage("figure")}
PaymentUrls == {"https://t.me/$invoice1", "https://t.me/$invoice2"}

\* _create_qr_code_pdf_page: the one page of qr_page_{user_id}.pdf
QrPage(payment_url, user_id) ==
    [qr |-> payment_url, user_id |-> user_id, shows |-> "qr code"]

half_pages_rounded_up(total_pages) == (total_pages + 1) \div 2
half_pages(total_pages) == total_pages \div 2

\* qr_made: no exception left _create_qr_code_pdf_page or the writing of
\* the file.
create_partial_pdf_with_qr(full_pdf, payment_url, user_id, qr_made) ==
    LET total_pages == Len(full_pdf)
        qr_pages_count == total_pages - half_pages(total_pages)
    IN IF total_pages = 0
       THEN [state |-> "returned", success |-> FALSE, pages |-> <<>>]
       ELSE IF ~qr_made
       THEN [state |-> "returned", success |-> FALSE, pages |-> <<>>]
       ELSE [state |-> "returned", success |-> TRUE,
             pages |-> [i \in 1..half_pages(total_pages) |-> full_pdf[i]]
                        \o [j \in 1..qr_pages_count |-> QrPage(payment_url, user_id)]]

InitPartialPdf ==
    /\ pdfArgs \in [pages : SeqsUpTo(PdfPageContents, MaxPdfPages),
                    payment_url : PaymentUrls, user_id : {7}]
    /\ pdfResult = PdfPending
    /\ IdleTags /\ IdlePlan /\ IdleCite /\ IdleGen
    /\ IdleValidate /\ IdleAlloc /\ IdleDollars /\ IdleAmpersands /\ IdleSection
    /\ IdleWorkOnly /\ IdleAsk /\ IdleMigrations

CreatePartialPdf ==
    /\ pdfResult = PdfPending
    /\ \E qr_made \in BOOLEAN :
         pdfResult' = create_partial_pdf_with_qr(pdfArgs.pages, pdfArgs.payment_url,
                                                 pdfArgs.user_id, qr_made)
    /\ UNCHANGED <<pdfArgs, TextVars, workOwnVars, askVars, migVars>>

NextPartialPdf == CreatePartialPdf
SpecPartialPdf == InitPartialPdf /\ [][NextPartialPdf]_vars

(***************************************************************************)
(* Claims about create_partial_pdf_with_qr                                 *)
(***************************************************************************)
IsQrPage(page) == page = QrPage(pdfArgs.payment_url, pdfArgs.user_id)

MaxRuns == 2

MigrationNames ==
    { <<"1", "_", "a">>, <<"2", "_", "a">>, <<"1", "0", "_", "a">>,
      <<"0", "0", "1", "_", "a">>, <<"0", "0", "2", "_", "a">>, <<"a", "_", "a">> }
InitialVersions == {{}, {1}}

\* The code points the file names are compared by
CodePoint(c) ==
    CASE c = "0" -> 48 [] c = "1" -> 49 [] c = "2" -> 50 [] c = "_" -> 95
      [] c = "a" -> 97

RECURSIVE NameLess(_, _)
NameLess(a, b) ==
    IF a = <<>> THEN b # <<>>
    ELSE IF b = <<>> THEN FALSE
    ELSE IF Head(a) = Head(b) THEN NameLess(Tail(a), Tail(b))
    ELSE CodePoint(Head(a)) < CodePoint(Head(b))

\* sorted(MIGRATIONS_DIR.glob('*.sql'))
RECURSIVE SortedNames(_)
SortedNames(names) ==
    IF names = {} THEN <<>>
    ELSE LET first == CHOOSE n \in names : \A m \in names \ {n} : NameLess(n, m)
         IN <<first>> \o SortedNames(names \ {first})

\* filename.split('_')[0]
RECURSIVE VersionPrefix(_)
VersionPrefix(stem) ==
    IF stem = <<>> \/ Head(stem) = "_" THEN <<>>
    ELSE <<Head(stem)>> \o VersionPrefix(Tail(stem))

IsDigitChar(c) == c \in {"0", "1", "2"}
RECURSIVE IntOf(_)
IntOf(digits) ==
    IF digits = <<>> THEN 0
    ELSE IntOf(Front(digits)) * 10 + (CodePoint(Last(digits)) - CodePoint("0"))

\* int(...) of the prefix; ValueError for a prefix that is no number
HasVersion(stem) ==
    LET p == VersionPrefix(stem) IN p # <<>> /\ \A j \in DOMAIN p : IsDigitChar(p[j])
Version(stem) == IntOf(VersionPrefix(stem))

RECURSIVE SortedByVersion(_)
SortedByVersion(names) ==
    IF names = {} THEN <<>>
    ELSE LET first == CHOOSE n \in names :
                          \A m \in names \ {n} :
                              \/ Version(n) < Version(m)
                              \/ Version(n) = Version(m) /\ NameLess(n, m)
         IN <<first>> \o SortedByVersion(names \ {first})

\* get_migration_files: the (version, file) pairs in the order of the
\* sorted paths, the files without a version left out.
get_migration_files(names) ==
    LET files == SortedNames(names)
        kept == SelectSeq(files, HasVersion)
    IN [j \in DOMAIN kept |-> [version |-> Version(kept[j]), file |-> kept[j]]]

\* get_current_version: SELECT version ... ORDER BY version DESC LIMIT 1
get_current_version(rows) ==
    IF rows = {} THEN 0 ELSE CHOOSE v \in rows : \A w \in rows : w <= v

InitMigrations ==
    /\ migration_files \in SUBSET MigrationNames
    /\ schema_version \in InitialVersions
    /\ migPc = "ready" /\ current_version = 0 /\ migrations = <<>>
    /\ migration_index = 0 /\ applied = <<>> /\ version_log = <<>>
    /\ IdleTags /\ IdlePlan /\ IdleCite /\ IdleGen
    /\ IdleValidate /\ IdleAlloc /\ IdleDollars /\ IdleAmpersands /\ IdleSection
    /\ IdleWorkOnly /\ IdleAsk /\ IdlePdf

MigrationOtherVars == <<TextVars, workOwnVars, askVars, pdfVars>>

\* run_migrations up to the loop: the table is made, the version read, the
\* files listed; without files it returns.
RunMigrations ==
    /\ migPc \in {"ready", "done"} /\ Len(applied) < MaxRuns
    /\ current_version' = get_current_version(schema_version)
    /\ version_log' = Append(version_log, get_current_version(schema_version))
    /\ migrations' = get_migration_files(migration_files)
    /\ migration_index' = 1
    /\ applied' = Append(applied, <<>>)
    /\ migPc' = IF get_migration_files(migration_files) = <<>> THEN "done" ELSE "loop"
    /\ UNCHANGED <<migration_files, schema_version, MigrationOtherVars>>

\* One round of the loop: apply_migration for a version above
\* current_version, with set_version after its commands, or the exception
\* that ends the run.
ApplyMigration ==
    /\ migPc = "loop"
    /\ LET m == migrations[migration_index]
           last == migration_index = Len(migrations)
       IN IF m.version > current_version
          THEN \E succeeded \in BOOLEAN :
                 IF succeeded
                 THEN /\ schema_version' = schema_version \cup {m.version}
                      /\ applied' = [applied EXCEPT ![Len(applied)] = Append(@, m.file)]
                      /\ migPc' = IF last THEN "done" ELSE "loop"
                 ELSE /\ migPc' = "raised"
                      /\ UNCHANGED <<schema_version, applied>>
          ELSE /\ migPc' = IF last THEN "done" ELSE "loop"
               /\ UNCHANGED <<schema_version, applied>>
    /\ migration_index' = migration_index + 1
    /\ UNCHANGED <<migration_files, current_version, migrations, version_log,
                   MigrationOtherVars>>

NextMigrations == RunMigrations \/ ApplyMigration
SpecMigrations == InitMigrations /\ [][NextMigrations]_vars

(***************************************************************************)
(* Claims about run_migrations                                             *)
(***************************************************************************)
\* The files a run that started at version v has to apply, in ascending
\* version order.
DueInVersionOrder(v) ==
    SortedByVersion({n \in migration_files : HasVersion(n) /\ Version(n) > v})

\* C26 as stated: a run that succeeded has applied exactly the migrations
\* whose version is greater than the schema version it found, each once and
\* in ascending version order, and a second run directly after it applies
\* none and finds the same schema version at its end.
CexC26 ==
    migPc = "done" =>
        /\ applied[1] = DueInVersionOrder(version_log[1])
        /\ Len(applied) = 2 =>
               /\ applied[2] = <<>>
               /\ get_current_version(schema_version) = version_log[2]

(***************************************************************************)
(* Claims about generate_subsections_content                               *)
(***************************************************************************)
\* The responses of the subsection in hand as the validation sees them.
FixedResponses(responses, subsection) ==
    [j \in DOMAIN responses |->
        fix_section_commands(responses[j], TitleString(subsection))]

\* One request for the text of a subsection and what it leaves behind.
SubsectionRequestStep ==
    LET subsection == subsections[subsection_index]
        fixed == FixedResponses(call'.responses, subsection)
        n == Len(fixed)
        last_one == subsection_index = Len(subsections)
    IN
    /\ n = attempt + 1 /\ n <= MAX_ATTEMPTS
    /\ \A j \in 1..(n - 1) : ~IsValid(fixed[j])
    /\ IF attempt = 0
       THEN /\ Len(requested') = Len(requested) + 1
            /\ requested'[Len(requested')].kind = "subsection"
            /\ requested'[Len(requested')].title = subsection
       ELSE requested' = requested
    /\ IF IsValid(fixed[n]) \/ n = MAX_ATTEMPTS
       THEN /\ call'.returned = <<fixed[n]>>
            /\ IF last_one
               THEN /\ chapterLog' = Append(chapterLog,
                                            chapter_content \o subsections_content
                                            \o fixed[n])
                    /\ pc' # "subsection"
               ELSE /\ subsections_content' = subsections_content \o fixed[n]
                    /\ subsection_index' = subsection_index + 1
                    /\ subsections' = subsections
                    /\ pc' = "subsection" /\ attempt' = 0
                    /\ chapterLog' = chapterLog
       ELSE /\ call'.returned = <<>>
            /\ attempt' = attempt + 1
            /\ pc' = "subsection"
            /\ UNCHANGED <<subsections, subsection_index, subsections_content,
                           chapterLog>>

\* The request for titles and what it leaves behind.
TitlesRequestStep ==
    /\ Len(requested') = Len(requested) + 1
    /\ requested'[Len(requested')].kind = "subsection_titles"
    /\ IF subsections' = <<>>
       THEN /\ pc' \notin {"subsection", "subsection_titles"}
            /\ chapterLog' = Append(chapterLog, chapter_content)
       ELSE /\ pc' = "subsection" /\ subsection_index' = 1 /\ attempt' = 0
            /\ subsections_content' = <<>>
            /\ chapterLog' = chapterLog

\* C27: generate_subsections_content takes the subsections in list order,
\* after one request for titles when the list it was given is empty; it
\* makes at most MAX_ATTEMPTS requests for a subsection, stops at the first
\* response that passes validate_latex_tags after fix_section_commands, and
\* appends one response per subsection, the valid one or else the third;
\* without titles it returns nothing and asks for no subsection text.
ThmC27 ==
    /\ [][/\ pc = "subsection" => SubsectionRequestStep
          /\ pc = "subsection_titles" => TitlesRequestStep]_vars
    /\ [](pc = "subsection" =>
            /\ subsections # <<>>
            /\ subsection_index \in 1..Len(subsections)
            /\ attempt < MAX_ATTEMPTS)

\* The first of several subsections has been given up after three invalid
\* responses and appended, and the second is in hand.
WitC27 ==
    /\ pc = "subsection" /\ subsection_index = 2 /\ attempt = 0
    /\ requested[Len(requested)].kind = "subsection"
    /\ requested[Len(requested)].title = subsections[1]
    /\ Len(call.responses) = MAX_ATTEMPTS /\ call.warnings = 1
    /\ subsections_content = call.returned[1]

(***************************************************************************)
(* Claims about the request for the final bibliography                     *)
(***************************************************************************)
\* C28 as stated: the request _generate_bibliography makes, for the
\* bibliography chapter of the plan or for the default title, is built from
\* the bibliography prompt of generate_chapter_content.
CexC28 ==
    /\ bibliography_chapter # <<>>
          => PromptKind(bibliography_chapter[1].title) = "bibliography"
    /\ PromptKind(DefaultBibliographyTitle) = "bibliography"
    /\ \A k \in RequestsOf({"bibliography"}) :
          requested[k].prompt = "bibliography"

(***************************************************************************)
(* Claims about the plan loop of _generate_large_work                      *)
(***************************************************************************)
Accepted(j) == validate_work_plan(plans[j].plan, order_info.pages).is_valid
PlanRequests == SelectSeq(work_requests, LAMBDA r : r = "plan")

\* The requested plan with the most items, the earliest of them.
IsEarliestRichest(j) ==
    /\ \A r \in DOMAIN plans : plans[r].items_count <= plans[j].items_count
    /\ \A r \in 1..(j - 1) : plans[r].items_count < plans[j].items_count

TerminalStatuses == {"completed", "failed"}
Written(status) == \E j \in DOMAIN status_writes : status_writes[j] = status

\* C30 as stated: the statuses written in one run are 'generating' and then
\* one terminal status, 'completed' only after the files were sent and
\* 'failed' after any exception before that.
CexC30 ==
    /\ status_writes # <<>> => status_writes[1] = "generating"
    /\ Len(status_writes) <= 2
    /\ Len(status_writes) = 2 => status_writes[2] \in TerminalStatuses
    /\ Written("completed") => FilesSent /\ raised = "none"
    /\ (workPc = "finished" /\ raised # "none") =>
           status_writes = <<"generating", "failed">>

\* C30: the statuses written in one run are 'generating', unless the write
\* of it raised, and then at most one terminal status.  'completed' is
\* written only after the PDF was compiled and the files were sent to the
\* user; an exception before that makes the handler write 'failed', which
\* is then the last status written unless that write raised too, and
\* without an exception the run ends with 'completed'; 'completed' is never
\* written after 'failed' nor 'failed' after 'completed'.
ThmC30 ==
    /\ status_writes \in {<<>>, <<"generating">>, <<"failed">>,
                          <<"generating", "completed">>, <<"generating", "failed">>}
    /\ status_writes = <<"failed">> => work_requests = <<>> /\ ~FilesSent
    /\ Written("completed") =>
           /\ raised = "none" /\ error_details = NoDetails
           /\ FilesSent
           /\ \E j \in DOMAIN sent : sent[j] = Message("admin", "tex_file", <<>>)
    /\ Written("failed") => raised # "none" /\ ~handler_raised
    /\ handler_raised => raised # "none" /\ status_writes \in {<<>>, <<"generating">>}
    /\ workPc = "finished" =>
           /\ raised = "none" => status_writes = <<"generating", "completed">>
           /\ (raised # "none" /\ ~handler_raised) =>
                  status_writes[Len(status_writes)] = "failed"
    /\ order_status \in TerminalStatuses =>
           status_writes[Len(status_writes)] = order_status

\* The files had gone to the user when an await after them raised: the run
\* has ended with 'generating' and 'failed' written.
WitC30 ==
    /\ workPc = "finished" /\ raised = "error" /\ FilesSent
    /\ status_writes = <<"generating", "failed">>

====
